---------------------------- MODULE Spec2Model ----------------------------
(***************************************************************************)
(* Verification model of the thienreal/pokemon tourism data pipeline:      *)
(* paginated scrapers, province-name normalizer, monthly weather           *)
(* aggregation, the multi-source merge, the time-based train/test split    *)
(* and the file-mediated data flow between the scripts.                    *)
(*                                                                         *)
(* Each subsystem is an independent script; it has its own variables, its  *)
(* own initial predicate and next-state relation, and its own              *)
(* specification (SpecScrape, SpecMerge, ...).  While one script runs the  *)
(* variables of the others stay at their idle values.                      *)
(***************************************************************************)
EXTENDS Integers, Sequences, FiniteSets, TLC

VARIABLES
    \* ---- paginated scrapers (scraper_*.py, vietnam_tourism_catalog_scraper.py)
    scraper,        \* which script runs
    max_pages,      \* Optional[int]: <<>> is None, <<n>> is the integer n
    start_page,     \* --start-page
    page,           \* current page number
    empty_count,    \* consecutive pages without records
    all_items,      \* records collected so far (a record is its page number)
    outfile,        \* Optional: <<>> not written yet, <<rows>> the rows of the CSV
    last_save,      \* how the last write of the CSV ended: "none" | "ok" | "IOError"
    attempt,        \* fetch_html: index of the current attempt for this page
    naps,           \* fetch_html: backoff sleeps taken so far for this page
    fetched,        \* history: one entry per page handed to the parser
    scrape_pc,      \* "loop" | "retry" | "done"
    dried,          \* the web site: <<>> while it may still deliver records,
                    \* <<n>> once it has stopped doing so after n fetched pages
    \* ---- code/create_weather_extended_features.py
    daily_df,       \* rows of vietnam_weather_by_province_2011_2025.csv
    monthly_stats,  \* rows written to vietnam_weather_monthly_extended.csv
    weather_pc,     \* "loaded" | "saved"
    \* ---- analysis/tourism_analysis_extended.py, analysis_filtered/...
    df,             \* merged table: destination -> traffic by month (<<>> is NaN)
    df_model,       \* rows with a 12-month lag
    split_date,     \* Optional date: <<>> is NaT
    train_df,
    test_df,
    split_pc,       \* "loaded" | "split"
    \* ---- code/merge_tourism_data_extended.py
    traffic_df,     \* wide traffic table: date rows x destination columns
    mapping_df,     \* keyword_mapping_normalized.csv
    weather_df,     \* vietnam_weather_monthly_extended.csv
    seasonal_df,    \* vietnam_seasonal_destinations_strong.csv
    stats_df,       \* destinations_statistics.csv
    regions_df,     \* vietnam_regions_with_distances.csv
    infra_files,    \* the five infrastructure CSV files, as written
    youtube_df,     \* vietnam_youtube_province_aggregates.csv
    grdp_df,        \* vietnam_grdp_by_province.csv
    pop_df,         \* vietnam_area_population.csv
    merged,         \* merged_tourism_data_extended.csv
    merge_pc,       \* "loaded" | "saved"
    \* ---- data flow through files
    fs,             \* path -> rows of the file
    ran,            \* the script that ran last, "none" before the first run
    before,         \* fs when the last run started
    base_done,      \* the daily weather file holds what
                    \* get_weather_by_province_2011_2025.py wrote and what
                    \* has been appended to it since
    \* ---- code/batch_normalize_provinces.py
    raw_name,       \* the value given to normalize_province: NaN or <<string>>
    result,         \* the value it returned
    norm_pc,        \* "read" | "done"
    \* ---- gg trends/fetch_trends_data.py
    destinations,   \* self.destinations: the keywords loaded
    trends_args,    \* command line: resume, use_anchor, batch_size, start_group, end_group
    raw_dir,        \* dest_trends_raw: group number -> state of dest_group_<idx>.csv
    failed_file,    \* dest_trends_raw/failed_groups.txt: <<>> or <<content>>
    group_i,        \* fetch_all: i of enumerate(groups, start=1)
    trend_attempt,  \* fetch_group: attempt
    calls,          \* history: one entry per fetch_group call that returned
    success_count,  \* fetch_all: success_count
    failed_groups,  \* fetch_all: failed_groups
    trends_pc,      \* "group" | "retry" | "done"
    \* ---- analysis/tourism_analysis_extended.py, STEP 3
    feat_df,        \* the merged table read: first month, traffic and
                    \* Peak_Months_List per destination
    fill_method,    \* pct_change of the installed pandas: "pad" | "none"
    features,       \* destination -> month index -> engineered row
    feat_pc         \* "loaded" | "engineered"

ScrapeVars == <<scraper, max_pages, start_page, page, empty_count, all_items,
                outfile, last_save, attempt, naps, fetched, scrape_pc, dried>>

WeatherVars == <<daily_df, monthly_stats, weather_pc>>

vars == <<scraper, max_pages, start_page, page, empty_count, all_items,
          outfile, last_save, attempt, naps, fetched, scrape_pc, dried,
          daily_df, monthly_stats, weather_pc,
          df, df_model, split_date, train_df, test_df, split_pc,
          traffic_df, mapping_df, weather_df, seasonal_df, stats_df, regions_df,
          infra_files, youtube_df, grdp_df, pop_df, merged, merge_pc,
          fs, ran, before, base_done, raw_name, result, norm_pc,
          destinations, trends_args, raw_dir, failed_file, group_i, trend_attempt,
          calls, success_count, failed_groups, trends_pc,
          feat_df, fill_method, features, feat_pc>>

FeatVars == <<feat_df, fill_method, features, feat_pc>>

TrendsVars == <<destinations, trends_args, raw_dir, failed_file, group_i, trend_attempt,
                calls, success_count, failed_groups, trends_pc>>

NormVars == <<raw_name, result, norm_pc>>
FilesVars == <<fs, ran, before, base_done>>
MergeVars == <<traffic_df, mapping_df, weather_df, seasonal_df, stats_df, regions_df,
               infra_files, youtube_df, grdp_df, pop_df, merged, merge_pc>>

SplitVars == <<df, df_model, split_date, train_df, test_df, split_pc>>

(***************************************************************************)
(*                              SCRAPERS                                   *)
(***************************************************************************)

\* Bounds of the scraper model.
MaxFetches == 3      \* pages one run of a retrying or catalog scraper may hand to the parser
MaxTourismFetches == 10  \* pages one run of scraper_tourism may hand to the parser
MaxPagesArg == 2     \* largest --max-pages value tried
MaxStart == 2        \* largest --start-page value tried next to StartNearCheckpoint

\* "if page % 10 == 0": a checkpoint falls on every tenth page number.
checkpoint_every == 10

\* --start-page values: the first pages, and the pages just before and on a
\* checkpoint page number.
StartPages == (1..MaxStart) \cup ((checkpoint_every - 2)..checkpoint_every)

\* fetch_html(page, max_retries=3) of the accommodation/entertainment/healthcare scrapers.
max_retries == 3

RetryingScrapers == {"scraper_accommodation", "scraper_entertainment", "scraper_healthcare"}
Scrapers == RetryingScrapers \cup {"scraper_tourism", "vietnam_tourism_catalog_scraper"}

\* What one HTTP request can bring back: an exception, a page without
\* records, a page with records.
Outcomes == {"error", "empty", "items"}

\* The web site may stop delivering records before any request: from then
\* on every request fails or brings a page without records.
Request(outcome) ==
    /\ dried' \in IF dried # <<>> THEN {dried} ELSE {<<>>, <<Len(fetched)>>}
    /\ dried' # <<>> => outcome # "items"

\* fetch_html: wait_time = 2 ** attempt
Pow2_Twice(n) == 2 * n
RECURSIVE Pow2(_)
Pow2(n) == IF n = 0 THEN 1 ELSE 2 * Pow2(n - 1)

\* Python truthiness of Optional[int]: None and 0 are both falsy.
Truthy(opt) == opt # <<>> /\ opt[1] # 0

\* parse_page / parse: "" (a failed fetch) and a page without <h4> entries
\* both give the empty list; a page with entries gives its records.
parse_page(html, p) == IF html = "items" THEN <<p>> ELSE <<>>

\* _save_csv / save_csv(mode="w") / write_csv: the file is rewritten with
\* all the rows given.
save_csv(rows) == <<rows>>

\* _save_csv of the accommodation/entertainment/healthcare scrapers catches
\* IOError and only logs it: the caller goes on.  save_csv of
\* scraper_tourism and write_csv of the catalog scraper have no handler (an
\* IOError there ends the process with a traceback, which is left out).
WriteOutcomes == IF scraper \in RetryingScrapers THEN {"ok", "IOError"} ELSE {"ok"}

\* What a write that raised IOError leaves on disk: the file as it was (open
\* failed) or the rows written before the error (open(..., 'w') truncates).
FailedWrite(rows) == {outfile} \cup {<<SubSeq(rows, 1, k)>> : k \in 0..Len(rows)}

\* One call of _save_csv / save_csv / write_csv.
Save(rows, io) ==
    /\ last_save' = io
    /\ IF io = "ok" THEN outfile' = save_csv(rows)
       ELSE outfile' \in FailedWrite(rows)

\* while-loop guard of AccommodationScraper.scrape.
LimitReached == Truthy(max_pages) /\ page - start_page >= max_pages[1]

\* Checkpoint condition after a page with records.
CheckpointDueAcc(p) == p % checkpoint_every = 0 \/ p = start_page
CheckpointDue(p) == IF scraper \in RetryingScrapers THEN CheckpointDueAcc(p)
                    ELSE p % checkpoint_every = 0

\* History entry of one page: checkpoint is "none" when the loop body did
\* not call _save_csv after the page, else how that call ended.
Entry(p, html, req, sl, ck) ==
    [page |-> p, html |-> html, requests |-> req, naps |-> sl,
     items |-> Len(parse_page(html, p)), checkpoint |-> ck]

\* fetch_html, except branch: another attempt follows unless this was the last.
ShouldRetry_Inverted(outcome, att) == outcome = "error" /\ att > max_retries - 1
ShouldRetry(outcome, att) == outcome = "error" /\ att < max_retries - 1

\* scrape(): "if empty_count >= 2: break".
StopOnEmpty_Three(ec) == ec >= 3
StopOnEmpty(ec) == ec >= 2

\* scrape(): "empty_count += 1" on a page without records, "empty_count = 0"
\* on a page with records.
NextEmptyCount_NoReset(ec, items) == IF items = <<>> THEN ec + 1 ELSE ec
NextEmptyCount(ec, items) == IF items = <<>> THEN ec + 1 ELSE 0

\* Body of the while loop of scrape() (accommodation/entertainment/
\* healthcare and scraper_tourism) once fetch_html/get_html has returned.
LoopBody(html, req, sl, io) ==
    LET items == parse_page(html, page) IN
    /\ fetched' = Append(fetched, Entry(page, html, req, sl,
                         IF items # <<>> /\ CheckpointDue(page) THEN io ELSE "none"))
    /\ attempt' = 0
    /\ naps' = <<>>
    /\ empty_count' = NextEmptyCount(empty_count, items)
    /\ IF items = <<>>
       THEN /\ all_items' = all_items
            /\ IF StopOnEmpty(NextEmptyCount(empty_count, items))
               THEN \* break, then the final save
                    /\ page' = page
                    /\ Save(all_items, io)
                    /\ scrape_pc' = "done"
               ELSE /\ page' = page + 1
                    /\ UNCHANGED <<outfile, last_save>>
                    /\ scrape_pc' = "loop"
       ELSE /\ all_items' = all_items \o items
            /\ IF CheckpointDue(page) THEN Save(all_items \o items, io)
               ELSE UNCHANGED <<outfile, last_save>>
            /\ page' = page + 1
            /\ scrape_pc' = "loop"

\* AccommodationScraper.scrape: the page limit is reached.
AccLimit ==
    /\ scraper \in RetryingScrapers
    /\ scrape_pc = "loop"
    /\ LimitReached
    /\ \E io \in WriteOutcomes : Save(all_items, io)
    /\ scrape_pc' = "done"
    /\ UNCHANGED <<scraper, max_pages, start_page, page, empty_count, all_items,
                   attempt, naps, fetched, dried>>

\* One request of fetch_html (with the rest of the loop body when fetch_html
\* returns).
AccFetch ==
    /\ scraper \in RetryingScrapers
    /\ \/ scrape_pc = "loop" /\ ~LimitReached /\ Len(fetched) < MaxFetches
       \/ scrape_pc = "retry"
    /\ \E outcome \in Outcomes :
         /\ Request(outcome)
         /\ IF ShouldRetry(outcome, attempt)
            THEN /\ naps' = Append(naps, Pow2(attempt))
                 /\ attempt' = attempt + 1
                 /\ scrape_pc' = "retry"
                 /\ UNCHANGED <<page, empty_count, all_items, outfile, last_save, fetched>>
            ELSE \E io \in WriteOutcomes :
                   LoopBody(IF outcome = "error" THEN "" ELSE outcome, attempt + 1, naps, io)
    /\ UNCHANGED <<scraper, max_pages, start_page>>

\* scraper_tourism.scrape: get_html makes one request and turns any
\* exception into "".
TourismStep ==
    /\ scraper = "scraper_tourism"
    /\ scrape_pc = "loop"
    /\ Len(fetched) < MaxTourismFetches
    /\ \E outcome \in Outcomes, io \in WriteOutcomes :
         /\ Request(outcome)
         /\ LoopBody(IF outcome = "error" THEN "" ELSE outcome, 1, <<>>, io)
    /\ UNCHANGED <<scraper, max_pages, start_page>>

\* DestinationScraper.scrape: "break" after a fetch error (html = "" here)
\* and after "if not page_items".
CatalogStops_OnEmptyBodyOnly(html, items) == html = "empty"
CatalogStops(html, items) == html = "" \/ items = <<>>

\* DestinationScraper.scrape: for page in range(start_page, max_pages + 1);
\* fetch_html raises on an HTTP error, and main() writes the CSV afterwards.
CatalogStep ==
    /\ scraper = "vietnam_tourism_catalog_scraper"
    /\ scrape_pc = "loop"
    /\ page <= max_pages[1]
    /\ Len(fetched) < MaxFetches
    /\ \E outcome \in Outcomes :
         LET html == IF outcome = "error" THEN "" ELSE outcome
             items == parse_page(html, page) IN
         /\ Request(outcome)
         /\ fetched' = Append(fetched, Entry(page, html, 1, <<>>, "none"))
         /\ IF CatalogStops(html, items)
            THEN /\ all_items' = all_items
                 /\ page' = page
                 /\ \E io \in WriteOutcomes : Save(all_items, io)
                 /\ scrape_pc' = "done"
            ELSE /\ all_items' = all_items \o items
                 /\ page' = page + 1
                 /\ UNCHANGED <<outfile, last_save>>
                 /\ scrape_pc' = "loop"
    /\ UNCHANGED <<scraper, max_pages, start_page, empty_count, attempt, naps>>

CatalogEnd ==
    /\ scraper = "vietnam_tourism_catalog_scraper"
    /\ scrape_pc = "loop"
    /\ page > max_pages[1]
    /\ \E io \in WriteOutcomes : Save(all_items, io)
    /\ scrape_pc' = "done"
    /\ UNCHANGED <<scraper, max_pages, start_page, page, empty_count, all_items,
                   attempt, naps, fetched, dried>>

\* Pages for which at least one request has been sent.
PagesFetched == Len(fetched) + (IF scrape_pc = "retry" THEN 1 ELSE 0)

----------------------------------------------------------------------------
\* C8 (as stated): every paginated scraper retries a failed page fetch, with
\* a backoff delay, before it treats the page as failed: a page is given up
\* (html = "") only after at least two requests and one backoff sleep.
C8_EveryScraperRetries ==
    \A i \in 1..Len(fetched) :
        fetched[i].html = "" => fetched[i].requests >= 2 /\ fetched[i].naps # <<>>

\* C8 (amended): the accommodation, entertainment and healthcare scrapers
\* give a page up only after a retry with backoff, and a page that answers
\* with records, also after failed attempts, has its records collected.
C8_RetryingScrapersRetry ==
    scraper \in RetryingScrapers =>
        \A i \in 1..Len(fetched) :
            /\ fetched[i].html = "" =>
                   fetched[i].requests >= 2 /\ fetched[i].naps # <<>>
            /\ fetched[i].html = "items" =>
                   \E k \in 1..Len(all_items) : all_items[k] = fetched[i].page

\* A page that failed once, was retried after a 1 s backoff, and delivered.
C8_Witness ==
    /\ scraper \in RetryingScrapers
    /\ scrape_pc = "loop"
    /\ \E i \in 1..Len(fetched) :
          /\ fetched[i].requests = 2
          /\ fetched[i].naps = <<1>>
          /\ fetched[i].html = "items"
          /\ \E k \in 1..Len(all_items) : all_items[k] = fetched[i].page

C10_AtMostMaxPages ==
    max_pages # <<>> => PagesFetched <= max_pages[1]

IsPrefix(a, b) == Len(a) <= Len(b) /\ SubSeq(b, 1, Len(a)) = a

\* C11 (as stated): whenever the output CSV has been written during a scrape
\* its records are a prefix, in page order, of the records collected so far,
\* and when scrape returns the file holds exactly the records it returns.
\* (Violated when the final _save_csv raises IOError, e.g. --output names a
\* directory that does not exist: the error is logged, scrape returns its
\* records, and the file is missing or holds an earlier checkpoint.)
C11_FileIsResultAtReturn ==
    scraper \in Scrapers \ {"vietnam_tourism_catalog_scraper"} =>
        /\ outfile # <<>> => IsPrefix(outfile[1], all_items)
        /\ scrape_pc = "done" => outfile = save_csv(all_items)

\* The backoff sleeps of a fetch_html call that has seen n failed attempts
\* followed by another attempt: 1 s, then 2 s.
Backoff(n) == SubSeq(<<1, 2>>, 1, n)

\* C16: fetch_html of the accommodation, entertainment and healthcare
\* scrapers makes at most max_retries requests for a page, returns at the
\* first successful response (every request before it failed and was
\* followed by a sleep of 2^attempt seconds), never sleeps after the last
\* attempt, and returns "" exactly after max_retries failed attempts.
C16_FetchHtmlRetriesWithBackoff ==
    scraper \in RetryingScrapers =>
        /\ \A i \in 1..Len(fetched) :
              /\ fetched[i].requests \in 1..max_retries
              /\ fetched[i].naps = Backoff(fetched[i].requests - 1)
              /\ fetched[i].html = "" => fetched[i].requests = max_retries
        /\ attempt \in 0..(max_retries - 1)
        /\ naps = Backoff(attempt)
        /\ scrape_pc = "retry" <=> attempt > 0

\* A page given up after three failed requests and sleeps of 1 s and 2 s,
\* and a page that answered at the first request.
C16_Witness ==
    /\ scraper \in RetryingScrapers
    /\ \E i \in 1..Len(fetched) :
          /\ fetched[i].html = ""
          /\ fetched[i].requests = 3
          /\ fetched[i].naps = <<1, 2>>
    /\ \E i \in 1..Len(fetched) :
          /\ fetched[i].html = "items"
          /\ fetched[i].requests = 1
          /\ fetched[i].naps = <<>>

\* Number of pages without records at the end of the history.
RECURSIVE TrailingEmpties(_)
TrailingEmpties(f) ==
    IF f = <<>> \/ f[Len(f)].items > 0 THEN 0
    ELSE 1 + TrailingEmpties(SubSeq(f, 1, Len(f) - 1))

C18_CheckpointEveryTenPages ==
    scraper \in RetryingScrapers \cup {"scraper_tourism"} =>
        /\ \A i \in 1..Len(fetched) :
              fetched[i].page % checkpoint_every = 0 => fetched[i].checkpoint # "none"
        /\ \A i \in 1..(Len(fetched) - checkpoint_every + 1) :
              \E j \in i..(i + checkpoint_every - 1) : fetched[j].checkpoint # "none"
        /\ /\ scrape_pc # "done"
           /\ fetched # <<>>
           /\ fetched[Len(fetched)].checkpoint = "ok"
           => outfile = <<all_items>>

\* Pages one run may hand to the parser in this model.
FetchCap == IF scraper = "scraper_tourism" THEN MaxTourismFetches ELSE MaxFetches

----------------------------------------------------------------------------
ScrapeInit ==
    /\ scraper \in Scrapers
    /\ max_pages \in
         IF scraper = "scraper_tourism" THEN {<<>>}
         ELSE IF scraper \in RetryingScrapers
              THEN {<<>>} \cup {<<n>> : n \in 0..MaxPagesArg}
              ELSE {<<n>> : n \in 0..MaxPagesArg}
    /\ start_page \in IF scraper = "scraper_tourism" THEN {1} ELSE StartPages
    /\ page = start_page
    /\ empty_count = 0
    /\ all_items = <<>>
    /\ outfile = <<>>
    /\ last_save = "none"
    /\ attempt = 0
    /\ naps = <<>>
    /\ fetched = <<>>
    /\ scrape_pc = "loop"
    /\ dried = <<>>

ScrapeIdle ==
    /\ scraper = "none"
    /\ max_pages = <<>>
    /\ start_page = 1
    /\ page = 1
    /\ empty_count = 0
    /\ all_items = <<>>
    /\ outfile = <<>>
    /\ last_save = "none"
    /\ attempt = 0
    /\ naps = <<>>
    /\ fetched = <<>>
    /\ scrape_pc = "idle"
    /\ dried = <<>>

(***************************************************************************)
(*              MONTHLY WEATHER FEATURES (daily -> monthly)                *)
(***************************************************************************)

\* Bound: number of daily records in the input file.
MaxDaily == 3

\* Provinces of the daily file, in sort order.
WeatherProvinces == <<"An Giang", "Gia Lai">>
\* (year, month) of the dates that occur in the daily file.
YearMonths == {<<2024, 12>>, <<2025, 1>>, <<2025, 12>>}
Temps == {18, 30}
Rains == {0, 7}

DailyRows ==
    [province : {WeatherProvinces[i] : i \in DOMAIN WeatherProvinces},
     ym : YearMonths, temp_avg : Temps, rainfall : Rains]

RECURSIVE SeqsUpTo(_, _)
SeqsUpTo(S, n) ==
    IF n = 0 THEN {<<>>}
    ELSE LET shorter == SeqsUpTo(S, n - 1) IN
         shorter \cup {Append(q, x) : q \in {t \in shorter : Len(t) = n - 1}, x \in S}

\* groupby(['province', 'year', 'month']): the key of a daily row.
GroupKey(r) == <<r.province, r.ym[1], r.ym[2]>>

ProvinceRank(p) == CHOOSE i \in DOMAIN WeatherProvinces : WeatherProvinces[i] = p
KeyRank(k) == (ProvinceRank(k[1]) * 10000 + k[2]) * 100 + k[3]

\* groupby sorts the group keys.
RECURSIVE SortedKeys(_)
SortedKeys(K) ==
    IF K = {} THEN <<>>
    ELSE LET k == CHOOSE x \in K : \A y \in K : KeyRank(x) <= KeyRank(y) IN
         <<k>> \o SortedKeys(K \ {k})

RECURSIVE SeqSum(_)
SeqSum(q) == IF q = <<>> THEN 0 ELSE Head(q) + SeqSum(Tail(q))
RECURSIVE SeqMax(_)
SeqMax(q) == IF Len(q) = 1 THEN q[1]
             ELSE LET t == SeqMax(Tail(q)) IN IF q[1] >= t THEN q[1] ELSE t
RECURSIVE SeqMin(_)
SeqMin(q) == IF Len(q) = 1 THEN q[1]
             ELSE LET t == SeqMin(Tail(q)) IN IF q[1] <= t THEN q[1] ELSE t

Column(rows, f) == [i \in DOMAIN rows |-> rows[i][f]]

\* lambda x: (x > 0).sum()
RainyDays_Geq(rain) == Len(SelectSeq(rain, LAMBDA x : x >= 0))
RainyDays(rain) == Len(SelectSeq(rain, LAMBDA x : x > 0))

\* .agg({...}) on one group, the flattened column names, temp_amplitude and
\* the first-of-month date column.  temp_mean is kept as the pair
\* (sum, count); temp_std, rainfall_mean_daily, latitude and longitude are
\* not modelled.
AggregateGroup(k, rows) ==
    LET temp == Column(rows, "temp_avg")
        rain == Column(rows, "rainfall") IN
    [province |-> k[1], year |-> k[2], month |-> k[3],
     date |-> <<k[2], k[3], 1>>,
     temp_mean |-> <<SeqSum(temp), Len(temp)>>,
     temp_min |-> SeqMin(temp),
     temp_max |-> SeqMax(temp),
     temp_amplitude |-> SeqMax(temp) - SeqMin(temp),
     rainfall_total |-> SeqSum(rain),
     rainfall_max_daily |-> SeqMax(rain),
     rainfall_days |-> RainyDays(rain)]

MonthlyStats(daily) ==
    LET keys == SortedKeys({GroupKey(daily[i]) : i \in DOMAIN daily}) IN
    [j \in DOMAIN keys |->
        AggregateGroup(keys[j], SelectSeq(daily, LAMBDA r : GroupKey(r) = keys[j]))]

\* create_weather_extended_features(): read, aggregate, save.
create_weather_extended_features ==
    /\ weather_pc = "loaded"
    /\ monthly_stats' = MonthlyStats(daily_df)
    /\ weather_pc' = "saved"
    /\ UNCHANGED daily_df

WeatherInit ==
    /\ daily_df \in SeqsUpTo(DailyRows, MaxDaily)
    /\ monthly_stats = <<>>
    /\ weather_pc = "loaded"

WeatherIdle ==
    /\ daily_df = <<>>
    /\ monthly_stats = <<>>
    /\ weather_pc = "idle"

\* The daily records of one (province, year, month), as a set of positions.
DaysOf(p, ym) == {i \in DOMAIN daily_df : daily_df[i].province = p /\ daily_df[i].ym = ym}

RECURSIVE SumOver(_, _)
SumOver(I, f) ==
    IF I = {} THEN 0
    ELSE LET i == CHOOSE x \in I : TRUE IN daily_df[i][f] + SumOver(I \ {i}, f)

----------------------------------------------------------------------------
\* C5: the monthly file has exactly one row for each (province, year,
\* month) with at least one daily record and none for any other; in it
\* rainfall_total is the sum, rainfall_max_daily the maximum and
\* rainfall_days the number of days with rainfall > 0 of the month's daily
\* rainfall, temp_min/temp_max are the extremes of the daily temp_avg, and
\* temp_amplitude = temp_max - temp_min.
C5_MonthlyAggregates ==
    weather_pc = "saved" =>
        \A i \in DOMAIN WeatherProvinces, ym \in YearMonths :
            LET p == WeatherProvinces[i]
                days == DaysOf(p, ym)
                out == {j \in DOMAIN monthly_stats :
                           /\ monthly_stats[j].province = p
                           /\ monthly_stats[j].year = ym[1]
                           /\ monthly_stats[j].month = ym[2]} IN
            /\ Cardinality(out) = (IF days = {} THEN 0 ELSE 1)
            /\ \A j \in out :
                  LET r == monthly_stats[j] IN
                  /\ r.rainfall_total = SumOver(days, "rainfall")
                  /\ \E d \in days : daily_df[d].rainfall = r.rainfall_max_daily
                  /\ \A d \in days : daily_df[d].rainfall <= r.rainfall_max_daily
                  /\ r.rainfall_days = Cardinality({d \in days : daily_df[d].rainfall > 0})
                  /\ \E d \in days : daily_df[d].temp_avg = r.temp_min
                  /\ \A d \in days : daily_df[d].temp_avg >= r.temp_min
                  /\ \E d \in days : daily_df[d].temp_avg = r.temp_max
                  /\ \A d \in days : daily_df[d].temp_avg <= r.temp_max
                  /\ r.temp_amplitude = r.temp_max - r.temp_min

\* Two months of one province in different years, one of them with a dry
\* and a rainy day of different temperature.
C5_Witness ==
    /\ weather_pc = "saved"
    /\ Len(monthly_stats) = 2
    /\ monthly_stats[1].province = monthly_stats[2].province
    /\ monthly_stats[1].month = monthly_stats[2].month
    /\ monthly_stats[1].year # monthly_stats[2].year
    /\ \E j \in 1..2 : /\ monthly_stats[j].rainfall_days = 1
                       /\ monthly_stats[j].rainfall_total = 7
                       /\ monthly_stats[j].temp_amplitude = 12

(***************************************************************************)
(*        MODELING: 12-month lag filter and time-based train/test split    *)
(***************************************************************************)

\* Bound: months of history after the first twelve.
MaxExtra == 7

\* The longest lag of the feature set: shift(12).
Lag12 == 12
\* pd.DateOffset(months=6)
SplitMonths == 6

SplitDestinations == {"Hoi An", "Sa Pa"}
NaN == <<>>

\* First month of the traffic table ('thg 1 2011', or a later start).
FirstMonths == {[year |-> 2011, month |-> 1], [year |-> 2011, month |-> 8]}

\* Timestamp arithmetic on first-of-month dates.
DateOrd(d) == d.year * 12 + (d.month - 1)
OrdDate(n) == [year |-> n \div 12, month |-> (n % 12) + 1]
AddMonths(d, k) == OrdDate(DateOrd(d) + k)
DateLeq(a, b) == a.year < b.year \/ (a.year = b.year /\ a.month <= b.month)
DateGt(a, b) == a.year > b.year \/ (a.year = b.year /\ a.month > b.month)

\* df.groupby('destination')['traffic'].shift(12) on the rows sorted by
\* (destination, date_parsed).
Shift(series, lag, i) == IF i - lag >= 1 THEN series[i - lag] ELSE NaN

\* The long table with its traffic_lag_12m column.
WithLag(table) ==
    {[destination |-> d, date_parsed |-> AddMonths(table.first, i - 1),
      traffic |-> table.traffic[d][i],
      traffic_lag_12m |-> Shift(table.traffic[d], Lag12, i)] :
        d \in DOMAIN table.traffic, i \in 1..(Lag12 + MaxExtra)}

\* df.dropna(subset=['traffic_lag_12m'])
DropNaLag(rows) == {r \in rows : r.traffic_lag_12m # NaN}

\* df_model['date_parsed'].max() - pd.DateOffset(months=6); NaT for an empty frame.
SplitDate(rows) ==
    IF rows = {} THEN <<>>
    ELSE LET last == CHOOSE r \in rows : \A q \in rows : DateLeq(q.date_parsed, r.date_parsed)
         IN <<AddMonths(last.date_parsed, 0 - SplitMonths)>>

\* Comparisons with NaT are False.
TrainFilter(rows, sd) == {r \in rows : sd # <<>> /\ DateLeq(r.date_parsed, sd[1])}
TestFilter_Geq(rows, sd) == {r \in rows : sd # <<>> /\ ~DateGt(sd[1], r.date_parsed)}
TestFilter(rows, sd) == {r \in rows : sd # <<>> /\ DateGt(r.date_parsed, sd[1])}

\* STEP 3 (lag features) and STEP 5 (filter, split) of the analysis script.
time_based_split ==
    /\ split_pc = "loaded"
    /\ LET model == DropNaLag(WithLag(df))
           sd == SplitDate(model) IN
       /\ df_model' = model
       /\ split_date' = sd
       /\ train_df' = TrainFilter(model, sd)
       /\ test_df' = TestFilter(model, sd)
    /\ split_pc' = "split"
    /\ UNCHANGED df

\* Traffic of a destination: missing (NaN) in some of the early months,
\* a search-interest score afterwards.
TrafficSeries ==
    {[i \in 1..(Lag12 + MaxExtra) |-> IF i \in missing THEN NaN ELSE <<i % 5>>] :
        missing \in SUBSET (1..MaxExtra)}

SplitInit ==
    /\ df \in [first : FirstMonths, traffic : [SplitDestinations -> TrafficSeries]]
    /\ df_model = {}
    /\ split_date = <<>>
    /\ train_df = {}
    /\ test_df = {}
    /\ split_pc = "loaded"

SplitIdle ==
    /\ df = <<>>
    /\ df_model = {}
    /\ split_date = <<>>
    /\ train_df = {}
    /\ test_df = {}
    /\ split_pc = "idle"

----------------------------------------------------------------------------
\* C6: with split_date = (latest month in df_model) minus 6 months, every
\* training row has date_parsed <= split_date and every test row has
\* date_parsed > split_date; train and test are disjoint, together they
\* cover df_model, and every test month is later than every training month.
C6_TimeBasedSplit ==
    split_pc = "split" /\ df_model # {} =>
        /\ split_date # <<>>
        /\ \E r \in df_model :
              /\ \A q \in df_model : DateOrd(q.date_parsed) <= DateOrd(r.date_parsed)
              /\ DateOrd(split_date[1]) = DateOrd(r.date_parsed) - 6
        /\ \A r \in train_df : DateOrd(r.date_parsed) <= DateOrd(split_date[1])
        /\ \A r \in test_df : DateOrd(r.date_parsed) > DateOrd(split_date[1])
        /\ train_df \cap test_df = {}
        /\ train_df \cup test_df = df_model
        /\ \A r \in train_df, q \in test_df :
              DateOrd(q.date_parsed) > DateOrd(r.date_parsed)

\* Both parts are non-empty, the split crosses a year boundary, and the two
\* destinations enter the model in different months.
C6_Witness ==
    /\ split_pc = "split"
    /\ train_df # {}
    /\ test_df # {}
    /\ split_date[1].year = 2012
    /\ \E q \in test_df : q.date_parsed.year = 2013
    /\ \E r \in train_df : r.destination = "Hoi An"
    /\ \A r \in train_df : r.destination # "Sa Pa"

(***************************************************************************)
(*   MODELING: feature engineering (STEP 3 of the analysis scripts)        *)
(***************************************************************************)

\* Bound: months of history after the first twelve.
MaxFeatExtra == 2
FeatMonths == Lag12 + MaxFeatExtra

\* n / d for d > 0, in lowest terms, as <<numerator, denominator>>.
RECURSIVE GCD(_, _)
GCD(a, b) == IF b = 0 THEN a ELSE GCD(b, a % b)
Frac(n, d) ==
    LET g == GCD(IF n < 0 THEN 0 - n ELSE n, d) IN <<n \div g, d \div g>>
\* x / 0 for x > 0
Inf == <<<<1, 0>>>>

\* The values of a window that are not NaN.
Valid(series, from, to) ==
    LET idx == SelectSeq([k \in 1..(to - from + 1) |-> from + k - 1],
                         LAMBDA k : series[k] # NaN)
    IN [k \in DOMAIN idx |-> series[idx[k]][1]]

\* x.shift(1).rolling(window, min_periods=1) at row i: the rows i - window
\* to i - 1 of x.
Rolling(series, window, i) ==
    Valid(series, IF i - window >= 1 THEN i - window ELSE 1, i - 1)

\* .mean(): NaN for a window without a value.
rolling_mean(series, window, i) ==
    LET xs == Rolling(series, window, i) IN
    IF Len(xs) < 1 THEN NaN ELSE <<Frac(SeqSum(xs), Len(xs))>>

\* .std(): the sample standard deviation, NaN for fewer than two values.
\* It is written as its square, sum((x - mean)^2) / (n - 1)
\*   = (n * sum(x^2) - sum(x)^2) / (n * (n - 1)).
rolling_std(series, window, i) ==
    LET xs == Rolling(series, window, i)
        n == Len(xs)
        squares == [k \in DOMAIN xs |-> xs[k] * xs[k]]
    IN IF n < 2 THEN NaN
       ELSE <<Frac(n * SeqSum(squares) - SeqSum(xs) * SeqSum(xs), n * (n - 1))>>

\* Series.ffill(): the last value at or before row i.
ffill(series, i) ==
    LET seen == {k \in 1..i : series[k] # NaN} IN
    IF seen = {} THEN NaN
    ELSE series[CHOOSE k \in seen : \A j \in seen : j <= k]

\* x.pct_change(12): x / x.shift(12) - 1.  Up to pandas 2 the series is
\* forward-filled first (fill_method='pad'), from pandas 3 it is not.
pct_change(series, periods, i) ==
    LET x == IF fill_method = "pad"
             THEN [k \in DOMAIN series |-> ffill(series, k)] ELSE series
        cur == x[i]
        prev == Shift(x, periods, i)
    IN IF cur = NaN \/ prev = NaN THEN NaN
       ELSE IF prev[1] = 0 THEN (IF cur[1] = 0 THEN NaN ELSE Inf)
       ELSE <<Frac(cur[1] - prev[1], prev[1])>>

\* .replace([np.inf, -np.inf], np.nan)
replace_inf(v) == IF v = Inf THEN NaN ELSE v

\* str(n) of an integer in 0..99, as character codes.
str_int(n) == IF n < 10 THEN <<48 + n>> ELSE <<48 + (n \div 10), 48 + (n % 10)>>

\* str(list) of a list of integers: "[10, 11, 12]".
RECURSIVE join_ints(_)
join_ints(q) ==
    IF q = <<>> THEN <<>>
    ELSE IF Len(q) = 1 THEN str_int(q[1])
    ELSE str_int(q[1]) \o <<44, 32>> \o join_ints(Tail(q))
str_list(q) == <<91>> \o join_ints(q) \o <<93>>

\* a in b, for strings
str_in(a, b) ==
    \E k \in 0..(Len(b) - Len(a)) : SubSeq(b, k + 1, k + Len(a)) = a

\* str(row['month']) in str(row.get('Peak_Months_List', ''))
\*     if pd.notna(row.get('Peak_Months_List')) else False, .astype(int)
is_peak_month(month, Peak_Months_List) ==
    IF Peak_Months_List # NaN /\ str_in(str_int(month), Peak_Months_List[1])
    THEN 1 ELSE 0

\* The engineered columns of the row of destination d in its i-th month.
FeatureRow(table, d, i) ==
    LET x == table.traffic[d]
        month == AddMonths(table.first, i - 1).month
    IN [destination |-> d,
        month |-> month,
        traffic |-> x[i],
        traffic_lag_1m |-> Shift(x, 1, i),
        traffic_lag_2m |-> Shift(x, 2, i),
        traffic_lag_3m |-> Shift(x, 3, i),
        traffic_lag_6m |-> Shift(x, 6, i),
        traffic_lag_12m |-> Shift(x, 12, i),
        traffic_rolling_mean_3m |-> rolling_mean(x, 3, i),
        traffic_rolling_mean_6m |-> rolling_mean(x, 6, i),
        traffic_rolling_mean_12m |-> rolling_mean(x, 12, i),
        traffic_rolling_std_3m |-> rolling_std(x, 3, i),
        traffic_rolling_std_6m |-> rolling_std(x, 6, i),
        traffic_rolling_std_12m |-> rolling_std(x, 12, i),
        traffic_yoy_change |-> replace_inf(pct_change(x, 12, i)),
        is_peak_month |-> is_peak_month(month, table.Peak_Months_List[d])]

\* feature_cols: the columns derived from traffic.
traffic_feature_cols ==
    {"traffic_lag_1m", "traffic_lag_2m", "traffic_lag_3m", "traffic_lag_6m",
     "traffic_lag_12m",
     "traffic_rolling_mean_3m", "traffic_rolling_mean_6m", "traffic_rolling_mean_12m",
     "traffic_rolling_std_3m", "traffic_rolling_std_6m",
     "traffic_yoy_change"}

\* STEP 3: the columns added to the table sorted by (destination, date_parsed).
feature_engineering ==
    /\ feat_pc = "loaded"
    /\ features' = [d \in DOMAIN feat_df.traffic |->
                      [i \in 1..FeatMonths |-> FeatureRow(feat_df, d, i)]]
    /\ feat_pc' = "engineered"
    /\ UNCHANGED <<feat_df, fill_method>>

\* Traffic of a destination over FeatMonths months: a search-interest score,
\* missing in no month, in the first two months or in the thirteenth.
FeatSeries ==
    {[i \in 1..FeatMonths |-> IF i \in missing THEN NaN ELSE <<(i * k) % 5>>] :
        missing \in {{}, {1, 2}, {Lag12 + 1}}, k \in 0..2}

\* Peak months of a destination in the seasonal table.
PeakLists == {<<6, 7>>, <<10, 11, 12>>, <<1, 2>>}

FeatInit ==
    /\ feat_df \in [first : FirstMonths,
                    traffic : [SplitDestinations -> FeatSeries],
                    Peak_Months_List : [SplitDestinations ->
                        {NaN} \cup {<<str_list(q)>> : q \in PeakLists}]]
    /\ fill_method \in {"pad", "none"}
    /\ features = <<>>
    /\ feat_pc = "loaded"

FeatIdle ==
    /\ feat_df = <<>>
    /\ fill_method = "none"
    /\ features = <<>>
    /\ feat_pc = "idle"

\* The table with the traffic of destination d in its t-th month replaced.
AlterTraffic(table, d, t, v) == [table EXCEPT !.traffic[d][t] = v]
\* Values the traffic of one month is replaced by.
OtherTraffic == {NaN, <<0>>, <<9>>}

----------------------------------------------------------------------------
\* C23 (as stated): no target leakage: for every destination d and month t
\* each column of feature_cols derived from traffic (lags, rolling mean and
\* std, year-over-year change) has at row (d, t) the same value in two
\* datasets that differ only in traffic(d, t).
\* (Violated: traffic_yoy_change = traffic(d, t) / traffic(d, t - 12) - 1.)
C23_NoTargetLeakage ==
    feat_pc = "engineered" =>
        \A d \in DOMAIN features : \A t \in 1..FeatMonths : \A v \in OtherTraffic :
            \A c \in traffic_feature_cols :
                FeatureRow(AlterTraffic(feat_df, d, t, v), d, t)[c] = features[d][t][c]

\* The list of months a Peak_Months_List string was written from.
peak_months(s) ==
    IF s = NaN THEN {}
    ELSE LET q == CHOOSE p \in PeakLists : str_list(p) = s[1]
         IN {q[k] : k \in DOMAIN q}

\* C24 (as stated): is_peak_month is 1 exactly when the month number of the
\* row is a member of the Peak_Months_List of its destination and 0
\* otherwise, also when the list is missing.
\* (Violated: str(1) is a substring of "[10, 11, 12]".)
C24_PeakMonthIsMembership ==
    feat_pc = "engineered" =>
        \A d \in DOMAIN features : \A t \in 1..FeatMonths :
            features[d][t].is_peak_month =
                IF features[d][t].month \in peak_months(feat_df.Peak_Months_List[d])
                THEN 1 ELSE 0

(***************************************************************************)
(*             MERGE (code/merge_tourism_data_extended.py)                 *)
(*                                                                         *)
(* A table is a sequence of rows; a row is a function from column names to *)
(* values.  A nullable value is <<>> (NaN) or <<v>>.                       *)
(***************************************************************************)

\* Bounds of the merge model.
MaxDates == 2        \* date rows of the traffic table
MaxRightRows == 3    \* rows in all the joined tables together

\* Destination columns of the traffic table, in column (and sort) order.
Dests == <<"Hoi An", "Sa Pa">>

\* 'thg 1 2011' after rsplit(' ', 1).
TrafficDates == [i \in 1..12 |->
    [month_str |-> <<"thg 1", "thg 2", "thg 3", "thg 4", "thg 5", "thg 6", "thg 7",
                     "thg 8", "thg 9", "thg 10", "thg 11", "thg 12">>[i],
     year |-> 2011]]

\* months_vi.get(month_str, 1)
months_vi(s) ==
    CASE s = "thg 1" -> 1 [] s = "thg 2" -> 2 [] s = "thg 3" -> 3 [] s = "thg 4" -> 4
      [] s = "thg 5" -> 5 [] s = "thg 6" -> 6 [] s = "thg 7" -> 7 [] s = "thg 8" -> 8
      [] s = "thg 9" -> 9 [] s = "thg 10" -> 10 [] s = "thg 11" -> 11
      [] s = "thg 12" -> 12 [] OTHER -> 1

parse_vietnamese_date(date) == [year |-> date.year, month |-> months_vi(date.month_str)]

\* The wide traffic table with n date rows: one search-interest score per
\* (date, destination) cell.
TrafficTable(n) ==
    [i \in 1..n |->
        [date |-> TrafficDates[i],
         cells |-> [d \in {Dests[k] : k \in DOMAIN Dests} |->
                       <<10 * i + (CHOOSE k \in DOMAIN Dests : Dests[k] = d)>>]]]

RECURSIVE Flatten(_)
Flatten(qq) == IF qq = <<>> THEN <<>> ELSE Head(qq) \o Flatten(Tail(qq))

\* traffic_df.melt(id_vars=['date_parsed'], value_vars=destination_cols, ...)
Melt(tdf) ==
    Flatten([k \in DOMAIN Dests |->
        [i \in DOMAIN tdf |->
            [date_parsed |-> parse_vietnamese_date(tdf[i].date),
             destination |-> Dests[k],
             traffic |-> tdf[i].cells[Dests[k]]]]])

\* DataFrame.rename(columns={old: new})
Rename(table, old, new) ==
    [i \in DOMAIN table |->
        IF old \notin DOMAIN table[i] THEN table[i]
        ELSE [c \in (DOMAIN table[i] \ {old}) \cup {new} |->
                 IF c = new THEN table[i][old] ELSE table[i][c]]]
\* DataFrame.drop(columns=cols, errors='ignore')
DropCols(table, cols) ==
    [i \in DOMAIN table |-> [c \in DOMAIN table[i] \ cols |-> table[i][c]]]

\* pandas matches the rows whose key columns are equal; a null key matches
\* a null key.
KeysMatch(l, r, lk, rk) == \A i \in DOMAIN lk : l[lk[i]] = r[rk[i]]

\* left.merge(right, left_on=lk, right_on=rk, how='left'), keeping of the
\* right table the columns `add`: every left row once per matching right
\* row, or once with nulls when none matches.
MergeRow(l, right, lk, rk, add) ==
    LET hits == SelectSeq(right, LAMBDA r : KeysMatch(l, r, lk, rk)) IN
    IF hits = <<>> THEN << [c \in add |-> NaN] @@ l >>
    ELSE [j \in DOMAIN hits |-> [c \in add |-> hits[j][c]] @@ l]

LeftMerge(left, right, lk, rk, add) ==
    Flatten([i \in DOMAIN left |-> MergeRow(left[i], right, lk, rk, add)])

\* BUOC 3: destination -> province.
Step3(long, mapping) ==
    Rename(LeftMerge(long, mapping, <<"destination">>, <<"normalized_name">>,
                     {"province_normalized"}),
           "province_normalized", "province")

\* BUOC 4: weather on (province, date_parsed) = (province, date).
Step4(m, weather) ==
    DropCols(LeftMerge(m, weather, <<"province", "date_parsed">>, <<"province", "date">>,
                       {"year", "month", "temp_mean", "rainfall_total"}),
             {"date", "year", "month"})

\* BUOC 5: seasonal patterns on destination = Destination.
Step5(m, seasonal) ==
    LET s == Rename(seasonal, "Amplitude (Median Peak/Trough)", "seasonal_amplitude")
        j == LeftMerge(m, s, <<"destination">>, <<"Destination">>,
                       {"seasonal_amplitude", "Peak_Months_List"}) IN
    [i \in DOMAIN j |->
        [has_strong_seasonality |-> j[i]["seasonal_amplitude"] # NaN] @@ j[i]]

\* BUOC 6: time features.
Step6(m) ==
    [i \in DOMAIN m |->
        [year |-> m[i]["date_parsed"].year,
         month |-> m[i]["date_parsed"].month,
         quarter |-> ((m[i]["date_parsed"].month - 1) \div 3) + 1] @@ m[i]]

\* BUOC 7: regions and distances on province.
Step7(m, regions) ==
    LeftMerge(m, regions, <<"province">>, <<"province">>,
              {"region", "distance_to_hanoi_km", "distance_to_hcm_km"})

\* The five infrastructure files, in the order they are loaded.
InfraNames == <<"vietnam_accommodation.csv", "vietnam_restaurants.csv",
                "vietnam_entertainment.csv", "vietnam_healthcare.csv",
                "vietnam_shops.csv">>
InfraHeader == <<"name", "province", "province_normalized">>
\* The header line of such a file when it is not split at ';'.
UnsplitHeader == "name;province;province_normalized"
NamesWithComma == {"Nha nghi B, Chau Doc"}

\* batch_normalize_provinces.process_file: df.to_csv(out_path, sep=conf["sep"])
\* with sep ';' for the five infrastructure files.
WrittenByNormalizer(rows) == [sep |-> ";", header |-> InfraHeader, rows |-> rows]

\* pd.read_csv(path, sep=sep) of a file written with file.sep.  With another
\* separator every line is one field, and a line that holds the separator
\* asked for has more fields than the header: the parser raises.
read_csv(file, sep) ==
    IF sep = file.sep
    THEN [ok |-> TRUE, columns |-> {file.header[i] : i \in DOMAIN file.header},
          rows |-> file.rows]
    ELSE IF \E i \in DOMAIN file.rows : file.rows[i]["name"] \in NamesWithComma
         THEN [ok |-> FALSE, columns |-> {}, rows |-> <<>>]
         ELSE [ok |-> TRUE, columns |-> {UnsplitHeader},
               rows |-> [i \in DOMAIN file.rows |-> [c \in {UnsplitHeader} |-> i]]]

\* Step 7 of BUOC 1: the reads share one try block, so the first read that
\* raises leaves the later frames undefined.
LoadedInfra(csvs) ==
    {k \in DOMAIN InfraNames :
        \A j \in 1..k : read_csv(csvs[InfraNames[j]], ",").ok}

\* BUOC 8: groupby('province_normalized').size() per loaded frame,
\* pd.DataFrame(infra_counts).reset_index(), rename index -> province, merge
\* on province; any exception is caught and the table is left as it was.
\*  - a frame without the column province_normalized: KeyError;
\*  - reset_index() names the key column after the index, which is
\*    'province_normalized' (or 'index' when no frame was loaded), so after
\*    the rename the counts frame has a province column only when it has no
\*    count column at all.
Step8(m, csvs) ==
    LET loaded == LoadedInfra(csvs)
        frames == [k \in loaded |-> read_csv(csvs[InfraNames[k]], ",")]
        key_error == \E k \in loaded : "province_normalized" \notin frames[k].columns
        index_name == IF loaded = {} THEN "index" ELSE "province_normalized"
        key_column == IF index_name = "index" THEN "province" ELSE index_name
    IN  IF key_error THEN m
        ELSE IF key_column # "province" THEN m
        ELSE m

\* BUOC 9: YouTube on province.
Step9YouTube(m, youtube) ==
    LeftMerge(m, Rename(Rename(youtube, "province_normalized", "province"),
                        "views", "youtube_views"),
              <<"province">>, <<"province">>, {"youtube_views"})

\* BUOC 9: GRDP on (province, year).  The Vietnamese column names of the
\* GRDP and population files are written without their diacritics.
Step9Grdp(m, grdp) ==
    LeftMerge(m, Rename(Rename(Rename(grdp, "Nam", "year"),
                               "province_normalized", "province"),
                        "Tong GRDP (ty dong)", "grdp"),
              <<"province", "year">>, <<"province", "year">>, {"grdp"})

\* pop_df.sort_values('pop_year', ascending=False).groupby('province').first():
\* one row per non-null province, that of its latest year (first() takes
\* the first non-null value of a column; the population values drawn here
\* are never null).
RECURSIVE LatestPerProvince(_, _)
LatestPerProvince(pop, provinces) ==
    IF provinces = {} THEN <<>>
    ELSE LET p == CHOOSE x \in provinces : TRUE
             rows == {i \in DOMAIN pop : pop[i]["province"] = p}
             best == CHOOSE i \in rows :
                        \A j \in rows : \/ pop[j]["pop_year"] < pop[i]["pop_year"]
                                        \/ (pop[j]["pop_year"] = pop[i]["pop_year"] /\ i <= j)
         IN <<pop[best]>> \o LatestPerProvince(pop, provinces \ {p})

\* BUOC 9: population on province.
Step9Population(m, population) ==
    LET renamed == Rename(Rename(Rename(population, "province_normalized", "province"),
                                 "Nam", "pop_year"),
                          "Dan so trung binh (nghin)", "population_thousand")
        latest == LatestPerProvince(renamed,
                     {renamed[i]["province"] : i \in DOMAIN renamed} \ {NaN})
    IN LeftMerge(m, latest, <<"province">>, <<"province">>, {"population_thousand"})

\* BUOC 10: destination statistics on destination.
Step10(m, stats) ==
    LeftMerge(m, Rename(Rename(stats, "Destination", "destination"),
                        "Mean", "dest_mean_traffic"),
              <<"destination">>, <<"destination">>, {"dest_mean_traffic"})

\* The place of a row in the order of (destination, date_parsed).
SortKey(r) ==
    (CHOOSE k \in DOMAIN Dests : Dests[k] = r["destination"]) * 100000
        + DateOrd(r["date_parsed"])

\* merged.sort_values(['destination', 'date_parsed'])
RECURSIVE SortRows(_)
SortRows(m) ==
    IF m = <<>> THEN <<>>
    ELSE LET i == CHOOSE x \in DOMAIN m :
                     \A y \in DOMAIN m : \/ SortKey(m[x]) < SortKey(m[y])
                                         \/ (SortKey(m[x]) = SortKey(m[y]) /\ x <= y)
         IN <<m[i]>> \o SortRows([k \in 1..(Len(m) - 1) |-> IF k < i THEN m[k] ELSE m[k + 1]])

\* merge_tourism_data(): load, melt, the joins, sort, save.
merge_tourism_data ==
    /\ merge_pc = "loaded"
    /\ LET long == Melt(traffic_df)
           s3 == Step3(long, mapping_df)
           s4 == Step4(s3, weather_df)
           s5 == Step5(s4, seasonal_df)
           s6 == Step6(s5)
           s7 == Step7(s6, regions_df)
           s8 == Step8(s7, infra_files)
           s9 == Step9Population(Step9Grdp(Step9YouTube(s8, youtube_df), grdp_df), pop_df)
           s10 == Step10(s9, stats_df)
       IN merged' = SortRows(s10)
    /\ merge_pc' = "saved"
    /\ UNCHANGED <<traffic_df, mapping_df, weather_df, seasonal_df, stats_df,
                   regions_df, infra_files, youtube_df, grdp_df, pop_df>>

\* Rows that the joined tables may hold.
RightPool == <<
    [table |-> "mapping",
     row |-> [normalized_name |-> "Hoi An", province_normalized |-> <<"An Giang">>]],
    [table |-> "mapping",
     row |-> [normalized_name |-> "Sa Pa", province_normalized |-> NaN]],
    [table |-> "weather",
     row |-> [province |-> <<"An Giang">>, date |-> [year |-> 2011, month |-> 1],
              year |-> 2011, month |-> 1, temp_mean |-> <<27>>, rainfall_total |-> <<40>>]],
    [table |-> "seasonal",
     row |-> ("Destination" :> "Hoi An") @@ ("Amplitude (Median Peak/Trough)" :> <<3>>)
             @@ ("Peak_Months_List" :> <<"[6, 7]">>)],
    [table |-> "stats",
     row |-> [Destination |-> "Hoi An", Mean |-> <<12>>]],
    [table |-> "regions",
     row |-> [province |-> <<"An Giang">>, region |-> <<"Mekong">>,
              distance_to_hanoi_km |-> <<1600>>, distance_to_hcm_km |-> <<190>>]],
    [table |-> "youtube",
     row |-> [province_normalized |-> <<"An Giang">>, views |-> <<100>>]],
    [table |-> "youtube",
     row |-> [province_normalized |-> NaN, views |-> <<7>>]],
    [table |-> "grdp",
     row |-> ("province_normalized" :> <<"An Giang">>) @@ ("Nam" :> 2011)
             @@ ("Tong GRDP (ty dong)" :> <<50>>)],
    [table |-> "pop",
     row |-> ("province_normalized" :> <<"An Giang">>) @@ ("Nam" :> 2020)
             @@ ("Dan so trung binh (nghin)" :> <<1900>>)],
    [table |-> "pop",
     row |-> ("province_normalized" :> <<"An Giang">>) @@ ("Nam" :> 2021)
             @@ ("Dan so trung binh (nghin)" :> <<1950>>)],
    [table |-> "vietnam_accommodation.csv",
     row |-> [name |-> "Khach san A", province |-> "An Giang",
              province_normalized |-> <<"An Giang">>]],
    [table |-> "vietnam_accommodation.csv",
     row |-> [name |-> "Nha nghi B, Chau Doc", province |-> "An Giang",
              province_normalized |-> <<"An Giang">>]],
    [table |-> "vietnam_restaurants.csv",
     row |-> [name |-> "Quan C", province |-> "An Giang",
              province_normalized |-> <<"An Giang">>]],
    [table |-> "vietnam_entertainment.csv",
     row |-> [name |-> "Khu vui choi D", province |-> "An Giang",
              province_normalized |-> <<"An Giang">>]],
    [table |-> "vietnam_healthcare.csv",
     row |-> [name |-> "Spa E", province |-> "An Giang",
              province_normalized |-> <<"An Giang">>]],
    [table |-> "vietnam_shops.csv",
     row |-> [name |-> "Cua hang F", province |-> "An Giang",
              province_normalized |-> <<"An Giang">>]] >>

\* The choices of at most n pool rows (a row may be taken more than once),
\* as non-decreasing sequences of pool positions.
RECURSIVE Picks(_)
Picks(n) ==
    IF n = 0 THEN {<<>>}
    ELSE LET shorter == Picks(n - 1) IN
         shorter \cup {Append(q, x) :
                          q \in {t \in shorter : Len(t) = n - 1},
                          x \in DOMAIN RightPool}

\* The rows of one table among the picked ones.
TableOf(pick, name) ==
    LET mine == SelectSeq(pick, LAMBDA x : RightPool[x].table = name) IN
    [i \in DOMAIN mine |-> RightPool[mine[i]].row]

MergeInit ==
    /\ \E n \in 1..MaxDates : traffic_df = TrafficTable(n)
    /\ \E pick \in {q \in Picks(MaxRightRows) :
                          \A i \in 1..(Len(q) - 1) : q[i] <= q[i + 1]} :
          /\ mapping_df = TableOf(pick, "mapping")
          /\ weather_df = TableOf(pick, "weather")
          /\ seasonal_df = TableOf(pick, "seasonal")
          /\ stats_df = TableOf(pick, "stats")
          /\ regions_df = TableOf(pick, "regions")
          /\ infra_files = [f \in {InfraNames[k] : k \in DOMAIN InfraNames} |->
                               WrittenByNormalizer(TableOf(pick, f))]
          /\ youtube_df = TableOf(pick, "youtube")
          /\ grdp_df = TableOf(pick, "grdp")
          /\ pop_df = TableOf(pick, "pop")
    /\ merged = <<>>
    /\ merge_pc = "loaded"

MergeIdle ==
    /\ traffic_df = <<>>
    /\ mapping_df = <<>>
    /\ weather_df = <<>>
    /\ seasonal_df = <<>>
    /\ stats_df = <<>>
    /\ regions_df = <<>>
    /\ infra_files = <<>>
    /\ youtube_df = <<>>
    /\ grdp_df = <<>>
    /\ pop_df = <<>>
    /\ merged = <<>>
    /\ merge_pc = "idle"

\* Positions of the merged rows of one cell of the traffic table.
RowsOfCell(i, d) ==
    {j \in DOMAIN merged :
        /\ merged[j]["destination"] = d
        /\ merged[j]["date_parsed"] = parse_vietnamese_date(traffic_df[i].date)}

HasMapping(d) == \E k \in DOMAIN mapping_df : mapping_df[k]["normalized_name"] = d

----------------------------------------------------------------------------
\* C2 (as stated): the merged table is keyed by (destination, month): it
\* holds exactly one row for each (destination column, date) cell of the
\* traffic input, and no two rows with the same (destination, date_parsed).
C2_KeyedByDestinationMonth ==
    merge_pc = "saved" =>
        /\ Len(merged) = Len(traffic_df) * Len(Dests)
        /\ \A i \in DOMAIN traffic_df, k \in DOMAIN Dests :
              Cardinality(RowsOfCell(i, Dests[k])) = 1

\* C3 (as stated): every cell of the traffic input appears in the output
\* with its traffic value, and a destination without province mapping has
\* a null province and null province attributes (weather, YouTube, GRDP,
\* population, region).
C3_LeftJoinKeepsCellsNullAttributes ==
    merge_pc = "saved" =>
        \A i \in DOMAIN traffic_df, k \in DOMAIN Dests :
            LET d == Dests[k] IN
            /\ \E j \in RowsOfCell(i, d) : merged[j]["traffic"] = traffic_df[i].cells[d]
            /\ \A j \in RowsOfCell(i, d) :
                  /\ merged[j]["traffic"] = traffic_df[i].cells[d]
                  /\ ~HasMapping(d) =>
                        /\ merged[j]["province"] = NaN
                        /\ merged[j]["temp_mean"] = NaN
                        /\ merged[j]["region"] = NaN
                        /\ merged[j]["youtube_views"] = NaN
                        /\ merged[j]["grdp"] = NaN
                        /\ merged[j]["population_thousand"] = NaN

\* Number of records of an infrastructure file in province p.
InfraCount(f, p) ==
    Cardinality({i \in DOMAIN infra_files[f].rows :
                    infra_files[f].rows[i]["province_normalized"] = p})
CountColumns == <<"accommodation_count", "restaurant_count", "entertainment_count",
                  "healthcare_count", "shop_count">>
\* C4 (as stated): every merged row of province p carries the five
\* infrastructure counts, each the number of records of the file with
\* province_normalized = p.
C4_InfrastructureCounts ==
    merge_pc = "saved" =>
        \A j \in DOMAIN merged :
            merged[j]["province"] # NaN =>
                \A k \in DOMAIN InfraNames :
                    InfraCount(InfraNames[k], merged[j]["province"]) > 0 =>
                        /\ CountColumns[k] \in DOMAIN merged[j]
                        /\ merged[j][CountColumns[k]] =
                               <<InfraCount(InfraNames[k], merged[j]["province"])>>

(***************************************************************************)
(* DATA FLOW THROUGH FILES                                                 *)
(*   apply_mapping.py, standardize_provinces.py,                           *)
(*   weather/get_weather_by_province_2011_2025.py,                         *)
(*   weather/get_weather_2025_only.py,                                     *)
(*   code/create_weather_extended_features.py                              *)
(* fs maps a path to the rows of the file; ran is the script that ran      *)
(* last and before is fs as it was when that run started.                  *)
(***************************************************************************)

\* Bound: number of rows of the daily weather file.
MaxWeatherRows == 2

mapping_file == "data/vietnam_province_name_mapping.csv"
\* apply_mapping.py: files
files == <<"data/vietnam_accommodation.csv", "data/vietnam_entertainment.csv",
           "data/vietnam_healthcare.csv", "data/vietnam_restaurants.csv",
           "data/vietnam_shops.csv">>
\* standardize_provinces.py: files_to_standardize
files_to_standardize == <<"data/youtube_province_videos.csv",
                          "data/cacKhuVucVietNam_with_distances.csv">>
provinces_file == "data/vietnam_regions_with_distances.csv"
output_file == "data/vietnam_weather_by_province_2011_2025.csv"
output_path == "data/normalized/vietnam_weather_monthly_extended.csv"

Range(q) == {q[i] : i \in DOMAIN q}

AllFiles ==
    {mapping_file, provinces_file, output_file, output_path}
        \cup Range(files) \cup Range(files_to_standardize)

Scripts_Files == {"apply_mapping", "standardize_provinces",
                  "get_weather_2025_only", "create_weather_extended_features"}

\* The files a script opens for reading.
Reads(s) ==
    CASE s = "apply_mapping" -> {mapping_file} \cup Range(files)
      [] s = "standardize_provinces" -> Range(files_to_standardize)
      [] s = "get_weather_2025_only" -> {provinces_file, output_file}
      [] s = "create_weather_extended_features" -> {output_file}

\* The files a script writes.
Writes_OntoInput(s) ==
    CASE s = "apply_mapping" -> Range(files)
      [] s = "standardize_provinces" -> Range(files_to_standardize)
      [] s = "get_weather_2025_only" -> {output_file}
      [] s = "create_weather_extended_features" -> {output_file}
Writes(s) ==
    CASE s = "apply_mapping" -> Range(files)
      [] s = "standardize_provinces" -> Range(files_to_standardize)
      [] s = "get_weather_2025_only" -> {output_file}
      [] s = "create_weather_extended_features" -> {output_path}

\* province_mapping = dict(zip(mapping['old'], mapping['new'])), then
\* province_mapping[prov] if prov in province_mapping else prov.
province_mapping(mapping, prov) ==
    LET hits == {k \in DOMAIN mapping : mapping[k].old = prov} IN
    IF hits = {} THEN prov
    ELSE mapping[CHOOSE k \in hits : \A j \in hits : j <= k].new

\* Vietnamese names are written in Telex (af as ar ax aj, aa aw ee oo ow uw
\* dd), one spelling per Unicode string, so that distinct names stay
\* distinct.
standardization_rules == <<
    <<"TP.Hoof Chis Minh", "TP. Hoof Chis Minh">>,
    <<"TP. Caafn Thow", "Caafn Thow">>,
    <<"TP. Hari Phofng", "Hari Phofng">>,
    <<"TP. DDaf Nawxng", "DDaf Nawxng">>,
    <<"TP. Haf Nooji", "Haf Nooji">>,
    <<"TP. Huees", "Thuwfa Thieen Huees">>,
    <<"Caafn Thow", "Caafn Thow">>,
    <<"Hari Phofng", "Hari Phofng">>,
    <<"DDaf Nawxng", "DDaf Nawxng">>,
    <<"Hoaf Bifnh", "Hofa Bifnh">>,
    <<"Thanh Hoas", "Thanh Hosa">> >>

\* for old_name, new_name in standardization_rules.items():
\*     df['province'] = df['province'].replace(old_name, new_name)
RECURSIVE Standardize(_, _)
Standardize(prov, k) ==
    IF k > Len(standardization_rules) THEN prov
    ELSE Standardize(IF prov = standardization_rules[k][1]
                     THEN standardization_rules[k][2] ELSE prov, k + 1)

\* One script run: the files in Writes(s) get the rows in `written`, every
\* other file is left as it is.
RunScript(s, written) ==
    /\ ran # "idle"
    /\ fs' = [f \in DOMAIN fs |-> IF f \in Writes(s) THEN written[f] ELSE fs[f]]
    /\ ran' = s
    /\ before' = fs
    /\ UNCHANGED base_done

\* apply_mapping.py
apply_mapping ==
    RunScript("apply_mapping",
              [f \in AllFiles |->
                  [i \in DOMAIN fs[f] |-> province_mapping(fs[mapping_file], fs[f][i])]])

\* standardize_provinces.py
standardize_provinces ==
    RunScript("standardize_provinces",
              [f \in AllFiles |-> [i \in DOMAIN fs[f] |-> Standardize(fs[f][i], 1)]])

\* years = list(range(2011, 2026)): of the fifteen years the last two.
years == <<2024, 2025>>

\* weather/get_weather_by_province_2011_2025.py: for year in years, for
\* every province, a request; the requests that succeed give the days of
\* that year (here its first day).  The file is written anew from these
\* rows, and only if some request succeeded.  The script creates the file:
\* it is run until it has written it, later runs are those of
\* get_weather_2025_only.
get_weather_by_province_2011_2025 ==
    \E ok \in SUBSET ((DOMAIN years) \X (DOMAIN fs[provinces_file])), t \in Temps :
        LET requests == Flatten([y \in DOMAIN years |->
                                   [i \in DOMAIN fs[provinces_file] |-> <<y, i>>]])
            all_weather_data == SelectSeq(requests, LAMBDA q : q \in ok)
            final_df == [k \in DOMAIN all_weather_data |->
                            [province |-> fs[provinces_file][all_weather_data[k][2]],
                             ym |-> <<years[all_weather_data[k][1]], 1>>,
                             date |-> <<years[all_weather_data[k][1]], 1, 1>>,
                             temp_avg |-> t, rainfall |-> 0]]
        IN /\ ran # "idle"
           /\ ~base_done
           /\ Len(final_df) <= MaxWeatherRows
           /\ fs' = IF all_weather_data # <<>>
                    THEN [fs EXCEPT ![output_file] = final_df] ELSE fs
           /\ base_done' = (base_done \/ all_weather_data # <<>>)
           /\ ran' = "get_weather_by_province_2011_2025"
           /\ before' = fs

\* weather/get_weather_2025_only.py: the provinces whose request succeeds
\* give rows of 2025; these are appended to the existing file, which is
\* written only if some request succeeded.
get_weather_2025_only ==
    \E ok \in SUBSET (DOMAIN fs[provinces_file]), t \in Temps :
        LET all_weather_data ==
                SelectSeq([i \in DOMAIN fs[provinces_file] |->
                              [province |-> fs[provinces_file][i], ym |-> <<2025, 1>>,
                               date |-> <<2025, 1, 1>>,
                               temp_avg |-> t, rainfall |-> 0, success |-> i \in ok]],
                          LAMBDA row : row.success)
            year_2025_df == [i \in DOMAIN all_weather_data |->
                                [province |-> all_weather_data[i].province,
                                 ym |-> all_weather_data[i].ym,
                                 date |-> all_weather_data[i].date,
                                 temp_avg |-> all_weather_data[i].temp_avg,
                                 rainfall |-> all_weather_data[i].rainfall]]
        IN /\ Len(fs[output_file]) + Len(year_2025_df) <= MaxWeatherRows
           /\ IF all_weather_data # <<>>
              THEN RunScript("get_weather_2025_only",
                             [f \in AllFiles |-> fs[output_file] \o year_2025_df])
              ELSE RunScript("get_weather_2025_only", fs)

\* code/create_weather_extended_features.py
run_create_weather_extended_features ==
    RunScript("create_weather_extended_features",
              [f \in AllFiles |-> MonthlyStats(fs[output_file])])

FilesInit ==
    /\ \E infra \in {<<"Haf Nooji">>, <<"Hoaf Bifnh">>},
          tube \in [Range(files_to_standardize) ->
                       {<<"Hoaf Bifnh">>, <<"TP. Huees", "Haf Nooji">>}],
          mapping \in {<<>>, <<[old |-> "Hoaf Bifnh", new |-> "Phus Thoj"]>>},
          provinces \in {<<"An Giang">>, <<"An Giang", "Gia Lai">>},
          daily \in {<<>>, <<[province |-> "An Giang", ym |-> <<2024, 12>>,
                              date |-> <<2024, 12, 31>>,
                              temp_avg |-> 18, rainfall |-> 7]>>} :
          fs = [f \in AllFiles |->
                   CASE f \in Range(files) -> infra
                     [] f \in Range(files_to_standardize) -> tube[f]
                     [] f = mapping_file -> mapping
                     [] f = provinces_file -> provinces
                     [] f = output_file -> daily
                     [] OTHER -> <<>>]
    /\ ran = "none"
    /\ before = fs
    /\ base_done = FALSE

FilesIdle ==
    /\ fs = <<>>
    /\ ran = "idle"
    /\ before = <<>>
    /\ base_done = FALSE

----------------------------------------------------------------------------
\* C7 (as stated): data flows strictly forward through files: the files a
\* script writes are disjoint from the files it reads, and no run of a
\* script alters its own input.
C7_WritesDisjointFromReads ==
    ran \in Scripts_Files =>
        /\ Writes(ran) \cap Reads(ran) = {}
        /\ \A f \in Reads(ran) : fs[f] = before[f]

ForwardScripts == {"create_weather_extended_features"}
InPlaceScripts == {"apply_mapping", "standardize_provinces", "get_weather_2025_only"}

\* C7 (amended): only create_weather_extended_features writes a new file and
\* leaves every file it reads as it was; apply_mapping, standardize_provinces
\* and get_weather_2025_only change no file but files they read, which they
\* rewrite in place.
C7_ForwardOrInPlace ==
    /\ ran \in ForwardScripts => \A f \in Reads(ran) : fs[f] = before[f]
    /\ ran \in InPlaceScripts => \A f \in AllFiles : fs[f] # before[f] => f \in Reads(ran)

\* create_weather_extended_features has written the monthly file from a
\* daily file that get_weather_2025_only extended in place before.
C7_Witness ==
    /\ ran = "create_weather_extended_features"
    /\ fs[output_path] # <<>>
    /\ \E i \in DOMAIN fs[output_file] : fs[output_file][i].ym[1] = 2025
    /\ fs[output_file] = before[output_file]

\* At most one row per (province, date).
OneRowPerDay(rows) ==
    \A i, j \in DOMAIN rows :
        (rows[i].province = rows[j].province /\ rows[i].date = rows[j].date) => i = j

\* C25 (as stated): after get_weather_by_province_2011_2025 and any number
\* of runs of get_weather_2025_only the daily weather file holds at most
\* one row per (province, date).
\* (Violated: get_weather_2025_only appends the days of 2025 to a file that
\* holds them already.)
C25_OneRowPerProvinceDate ==
    base_done => OneRowPerDay(fs[output_file])

(***************************************************************************)
(* PROVINCE NAME NORMALIZER: code/batch_normalize_provinces.py             *)
(* A string is the sequence of its code points; the comment next to a      *)
(* sequence gives the string.                                              *)
(***************************************************************************)

\* The target names written in the tables of the script.
Name == [
    An_Giang |-> <<65, 110, 32, 71, 105, 97, 110, 103>>,   \* "An Giang"
    Bac_Ninh |-> <<66, 7855, 99, 32, 78, 105, 110, 104>>,   \* "Bắc Ninh"
    Cao_Bang |-> <<67, 97, 111, 32, 66, 7857, 110, 103>>,   \* "Cao Bằng"
    Ca_Mau |-> <<67, 224, 32, 77, 97, 117>>,   \* "Cà Mau"
    Gia_Lai |-> <<71, 105, 97, 32, 76, 97, 105>>,   \* "Gia Lai"
    Ha_Tinh |-> <<72, 224, 32, 84, 297, 110, 104>>,   \* "Hà Tĩnh"
    Hung_Yen |-> <<72, 432, 110, 103, 32, 89, 234, 110>>,   \* "Hưng Yên"
    Lao_Cai |-> <<76, 224, 111, 32, 67, 97, 105>>,   \* "Lào Cai"
    Lam_Dong |-> <<76, 226, 109, 32, 272, 7891, 110, 103>>,   \* "Lâm Đồng"
    Lang_Son |-> <<76, 7841, 110, 103, 32, 83, 417, 110>>,   \* "Lạng Sơn"
    Nghe_An |-> <<78, 103, 104, 7879, 32, 65, 110>>,   \* "Nghệ An"
    Ninh_Binh |-> <<78, 105, 110, 104, 32, 66, 236, 110, 104>>,   \* "Ninh Bình"
    Phu_Tho |-> <<80, 104, 250, 32, 84, 104, 7885>>,   \* "Phú Thọ"
    Quang_Ngai |-> <<81, 117, 7843, 110, 103, 32, 78, 103, 227, 105>>,   \* "Quảng Ngãi"
    Quang_Ninh |-> <<81, 117, 7843, 110, 103, 32, 78, 105, 110, 104>>,   \* "Quảng Ninh"
    Quang_Tri |-> <<81, 117, 7843, 110, 103, 32, 84, 114, 7883>>,   \* "Quảng Trị"
    Son_La |-> <<83, 417, 110, 32, 76, 97>>,   \* "Sơn La"
    TP_Can_Tho |-> <<84, 80, 46, 32, 67, 7847, 110, 32, 84, 104, 417>>,   \* "TP. Cần Thơ"
    TP_Hue |-> <<84, 80, 46, 32, 72, 117, 7871>>,   \* "TP. Huế"
    TP_Ha_Noi |-> <<84, 80, 46, 32, 72, 224, 32, 78, 7897, 105>>,   \* "TP. Hà Nội"
    TP_Hai_Phong |-> <<84, 80, 46, 32, 72, 7843, 105, 32, 80, 104, 242, 110, 103>>,   \* "TP. Hải Phòng"
    TP_Ho_Chi_Minh |-> <<84, 80, 46, 32, 72, 7891, 32, 67, 104, 237, 32, 77, 105, 110, 104>>,   \* "TP. Hồ Chí Minh"
    TP_Da_Nang |-> <<84, 80, 46, 32, 272, 224, 32, 78, 7861, 110, 103>>,   \* "TP. Đà Nẵng"
    Thanh_Hoa |-> <<84, 104, 97, 110, 104, 32, 72, 243, 97>>,   \* "Thanh Hóa"
    Thai_Nguyen |-> <<84, 104, 225, 105, 32, 78, 103, 117, 121, 234, 110>>,   \* "Thái Nguyên"
    Tay_Ninh |-> <<84, 226, 121, 32, 78, 105, 110, 104>>,   \* "Tây Ninh"
    Vinh_Long |-> <<86, 297, 110, 104, 32, 76, 111, 110, 103>>,   \* "Vĩnh Long"
    Dien_Bien |-> <<272, 105, 7879, 110, 32, 66, 105, 234, 110>>,   \* "Điện Biên"
    Dak_Lak |-> <<272, 7855, 107, 32, 76, 7855, 107>>,   \* "Đắk Lắk"
    Dong_Nai |-> <<272, 7891, 110, 103, 32, 78, 97, 105>>,   \* "Đồng Nai"
    Dong_Thap |-> <<272, 7891, 110, 103, 32, 84, 104, 225, 112>> ]   \* "Đồng Tháp"

\* mapping_34: the rows (old, new) of data/vietnam_province_name_mapping.csv,
\* the provinces before and after the merger into 34 units.
mapping_34 == <<
    <<<<72, 224, 32, 71, 105, 97, 110, 103>>, <<84, 117, 121, 234, 110, 32, 81, 117, 97, 110, 103>>>>,   \* "Hà Giang" -> "Tuyên Quang"
    <<<<84, 117, 121, 234, 110, 32, 81, 117, 97, 110, 103>>, <<84, 117, 121, 234, 110, 32, 81, 117, 97, 110, 103>>>>,   \* "Tuyên Quang" -> "Tuyên Quang"
    <<<<89, 234, 110, 32, 66, 225, 105>>, <<76, 224, 111, 32, 67, 97, 105>>>>,   \* "Yên Bái" -> "Lào Cai"
    <<<<76, 224, 111, 32, 67, 97, 105>>, <<76, 224, 111, 32, 67, 97, 105>>>>,   \* "Lào Cai" -> "Lào Cai"
    <<<<66, 7855, 99, 32, 75, 7841, 110>>, <<84, 104, 225, 105, 32, 78, 103, 117, 121, 234, 110>>>>,   \* "Bắc Kạn" -> "Thái Nguyên"
    <<<<84, 104, 225, 105, 32, 78, 103, 117, 121, 234, 110>>, <<84, 104, 225, 105, 32, 78, 103, 117, 121, 234, 110>>>>,   \* "Thái Nguyên" -> "Thái Nguyên"
    <<<<86, 297, 110, 104, 32, 80, 104, 250, 99>>, <<80, 104, 250, 32, 84, 104, 7885>>>>,   \* "Vĩnh Phúc" -> "Phú Thọ"
    <<<<72, 242, 97, 32, 66, 236, 110, 104>>, <<80, 104, 250, 32, 84, 104, 7885>>>>,   \* "Hòa Bình" -> "Phú Thọ"
    <<<<80, 104, 250, 32, 84, 104, 7885>>, <<80, 104, 250, 32, 84, 104, 7885>>>>,   \* "Phú Thọ" -> "Phú Thọ"
    <<<<66, 7855, 99, 32, 71, 105, 97, 110, 103>>, <<66, 7855, 99, 32, 78, 105, 110, 104>>>>,   \* "Bắc Giang" -> "Bắc Ninh"
    <<<<66, 7855, 99, 32, 78, 105, 110, 104>>, <<66, 7855, 99, 32, 78, 105, 110, 104>>>>,   \* "Bắc Ninh" -> "Bắc Ninh"
    <<<<84, 104, 225, 105, 32, 66, 236, 110, 104>>, <<72, 432, 110, 103, 32, 89, 234, 110>>>>,   \* "Thái Bình" -> "Hưng Yên"
    <<<<72, 432, 110, 103, 32, 89, 234, 110>>, <<72, 432, 110, 103, 32, 89, 234, 110>>>>,   \* "Hưng Yên" -> "Hưng Yên"
    <<<<72, 7843, 105, 32, 68, 432, 417, 110, 103>>, <<84, 80, 46, 32, 72, 7843, 105, 32, 80, 104, 242, 110, 103>>>>,   \* "Hải Dương" -> "TP. Hải Phòng"
    <<<<84, 80, 46, 32, 72, 7843, 105, 32, 80, 104, 242, 110, 103>>, <<84, 80, 46, 32, 72, 7843, 105, 32, 80, 104, 242, 110, 103>>>>,   \* "TP. Hải Phòng" -> "TP. Hải Phòng"
    <<<<72, 224, 32, 78, 97, 109>>, <<78, 105, 110, 104, 32, 66, 236, 110, 104>>>>,   \* "Hà Nam" -> "Ninh Bình"
    <<<<78, 97, 109, 32, 272, 7883, 110, 104>>, <<78, 105, 110, 104, 32, 66, 236, 110, 104>>>>,   \* "Nam Định" -> "Ninh Bình"
    <<<<78, 105, 110, 104, 32, 66, 236, 110, 104>>, <<78, 105, 110, 104, 32, 66, 236, 110, 104>>>>,   \* "Ninh Bình" -> "Ninh Bình"
    <<<<81, 117, 7843, 110, 103, 32, 66, 236, 110, 104>>, <<81, 117, 7843, 110, 103, 32, 84, 114, 7883>>>>,   \* "Quảng Bình" -> "Quảng Trị"
    <<<<81, 117, 7843, 110, 103, 32, 84, 114, 7883>>, <<81, 117, 7843, 110, 103, 32, 84, 114, 7883>>>>,   \* "Quảng Trị" -> "Quảng Trị"
    <<<<81, 117, 7843, 110, 103, 32, 78, 97, 109>>, <<84, 80, 46, 32, 272, 224, 32, 78, 7861, 110, 103>>>>,   \* "Quảng Nam" -> "TP. Đà Nẵng"
    <<<<84, 80, 46, 32, 272, 224, 32, 78, 7861, 110, 103>>, <<84, 80, 46, 32, 272, 224, 32, 78, 7861, 110, 103>>>>,   \* "TP. Đà Nẵng" -> "TP. Đà Nẵng"
    <<<<75, 111, 110, 32, 84, 117, 109>>, <<81, 117, 7843, 110, 103, 32, 78, 103, 227, 105>>>>,   \* "Kon Tum" -> "Quảng Ngãi"
    <<<<81, 117, 7843, 110, 103, 32, 78, 103, 227, 105>>, <<81, 117, 7843, 110, 103, 32, 78, 103, 227, 105>>>>,   \* "Quảng Ngãi" -> "Quảng Ngãi"
    <<<<66, 236, 110, 104, 32, 272, 7883, 110, 104>>, <<71, 105, 97, 32, 76, 97, 105>>>>,   \* "Bình Định" -> "Gia Lai"
    <<<<71, 105, 97, 32, 76, 97, 105>>, <<71, 105, 97, 32, 76, 97, 105>>>>,   \* "Gia Lai" -> "Gia Lai"
    <<<<78, 105, 110, 104, 32, 84, 104, 117, 7853, 110>>, <<75, 104, 225, 110, 104, 32, 72, 242, 97>>>>,   \* "Ninh Thuận" -> "Khánh Hòa"
    <<<<75, 104, 225, 110, 104, 32, 72, 242, 97>>, <<75, 104, 225, 110, 104, 32, 72, 242, 97>>>>,   \* "Khánh Hòa" -> "Khánh Hòa"
    <<<<272, 7855, 107, 32, 78, 244, 110, 103>>, <<76, 226, 109, 32, 272, 7891, 110, 103>>>>,   \* "Đắk Nông" -> "Lâm Đồng"
    <<<<66, 236, 110, 104, 32, 84, 104, 117, 7853, 110>>, <<76, 226, 109, 32, 272, 7891, 110, 103>>>>,   \* "Bình Thuận" -> "Lâm Đồng"
    <<<<76, 226, 109, 32, 272, 7891, 110, 103>>, <<76, 226, 109, 32, 272, 7891, 110, 103>>>>,   \* "Lâm Đồng" -> "Lâm Đồng"
    <<<<80, 104, 250, 32, 89, 234, 110>>, <<272, 7855, 107, 32, 76, 7855, 107>>>>,   \* "Phú Yên" -> "Đắk Lắk"
    <<<<272, 7855, 107, 32, 76, 7855, 107>>, <<272, 7855, 107, 32, 76, 7855, 107>>>>,   \* "Đắk Lắk" -> "Đắk Lắk"
    <<<<66, 236, 110, 104, 32, 68, 432, 417, 110, 103>>, <<84, 80, 46, 32, 72, 7891, 32, 67, 104, 237, 32, 77, 105, 110, 104>>>>,   \* "Bình Dương" -> "TP. Hồ Chí Minh"
    <<<<66, 224, 32, 82, 7883, 97, 32, 8211, 32, 86, 361, 110, 103, 32, 84, 224, 117>>, <<84, 80, 46, 32, 72, 7891, 32, 67, 104, 237, 32, 77, 105, 110, 104>>>>,   \* "Bà Rịa – Vũng Tàu" -> "TP. Hồ Chí Minh"
    <<<<84, 80, 46, 32, 72, 7891, 32, 67, 104, 237, 32, 77, 105, 110, 104>>, <<84, 80, 46, 32, 72, 7891, 32, 67, 104, 237, 32, 77, 105, 110, 104>>>>,   \* "TP. Hồ Chí Minh" -> "TP. Hồ Chí Minh"
    <<<<66, 236, 110, 104, 32, 80, 104, 432, 7899, 99>>, <<272, 7891, 110, 103, 32, 78, 97, 105>>>>,   \* "Bình Phước" -> "Đồng Nai"
    <<<<272, 7891, 110, 103, 32, 78, 97, 105>>, <<272, 7891, 110, 103, 32, 78, 97, 105>>>>,   \* "Đồng Nai" -> "Đồng Nai"
    <<<<76, 111, 110, 103, 32, 65, 110>>, <<84, 226, 121, 32, 78, 105, 110, 104>>>>,   \* "Long An" -> "Tây Ninh"
    <<<<84, 226, 121, 32, 78, 105, 110, 104>>, <<84, 226, 121, 32, 78, 105, 110, 104>>>>,   \* "Tây Ninh" -> "Tây Ninh"
    <<<<83, 243, 99, 32, 84, 114, 259, 110, 103>>, <<84, 80, 46, 32, 67, 7847, 110, 32, 84, 104, 417>>>>,   \* "Sóc Trăng" -> "TP. Cần Thơ"
    <<<<72, 7853, 117, 32, 71, 105, 97, 110, 103>>, <<84, 80, 46, 32, 67, 7847, 110, 32, 84, 104, 417>>>>,   \* "Hậu Giang" -> "TP. Cần Thơ"
    <<<<84, 80, 46, 32, 67, 7847, 110, 32, 84, 104, 417>>, <<84, 80, 46, 32, 67, 7847, 110, 32, 84, 104, 417>>>>,   \* "TP. Cần Thơ" -> "TP. Cần Thơ"
    <<<<66, 7871, 110, 32, 84, 114, 101>>, <<86, 297, 110, 104, 32, 76, 111, 110, 103>>>>,   \* "Bến Tre" -> "Vĩnh Long"
    <<<<84, 114, 224, 32, 86, 105, 110, 104>>, <<86, 297, 110, 104, 32, 76, 111, 110, 103>>>>,   \* "Trà Vinh" -> "Vĩnh Long"
    <<<<86, 297, 110, 104, 32, 76, 111, 110, 103>>, <<86, 297, 110, 104, 32, 76, 111, 110, 103>>>>,   \* "Vĩnh Long" -> "Vĩnh Long"
    <<<<84, 105, 7873, 110, 32, 71, 105, 97, 110, 103>>, <<272, 7891, 110, 103, 32, 84, 104, 225, 112>>>>,   \* "Tiền Giang" -> "Đồng Tháp"
    <<<<272, 7891, 110, 103, 32, 84, 104, 225, 112>>, <<272, 7891, 110, 103, 32, 84, 104, 225, 112>>>>,   \* "Đồng Tháp" -> "Đồng Tháp"
    <<<<66, 7841, 99, 32, 76, 105, 234, 117>>, <<67, 224, 32, 77, 97, 117>>>>,   \* "Bạc Liêu" -> "Cà Mau"
    <<<<67, 224, 32, 77, 97, 117>>, <<67, 224, 32, 77, 97, 117>>>>,   \* "Cà Mau" -> "Cà Mau"
    <<<<75, 105, 234, 110, 32, 71, 105, 97, 110, 103>>, <<65, 110, 32, 71, 105, 97, 110, 103>>>>,   \* "Kiên Giang" -> "An Giang"
    <<<<65, 110, 32, 71, 105, 97, 110, 103>>, <<65, 110, 32, 71, 105, 97, 110, 103>>>>,   \* "An Giang" -> "An Giang"
    <<<<84, 80, 46, 32, 72, 224, 32, 78, 7897, 105>>, <<84, 80, 46, 32, 72, 224, 32, 78, 7897, 105>>>>,   \* "TP. Hà Nội" -> "TP. Hà Nội"
    <<<<84, 80, 46, 32, 72, 117, 7871>>, <<84, 80, 46, 32, 72, 117, 7871>>>>,   \* "TP. Huế" -> "TP. Huế"
    <<<<76, 97, 105, 32, 67, 104, 226, 117>>, <<76, 97, 105, 32, 67, 104, 226, 117>>>>,   \* "Lai Châu" -> "Lai Châu"
    <<<<272, 105, 7879, 110, 32, 66, 105, 234, 110>>, <<272, 105, 7879, 110, 32, 66, 105, 234, 110>>>>,   \* "Điện Biên" -> "Điện Biên"
    <<<<83, 417, 110, 32, 76, 97>>, <<83, 417, 110, 32, 76, 97>>>>,   \* "Sơn La" -> "Sơn La"
    <<<<76, 7841, 110, 103, 32, 83, 417, 110>>, <<76, 7841, 110, 103, 32, 83, 417, 110>>>>,   \* "Lạng Sơn" -> "Lạng Sơn"
    <<<<81, 117, 7843, 110, 103, 32, 78, 105, 110, 104>>, <<81, 117, 7843, 110, 103, 32, 78, 105, 110, 104>>>>,   \* "Quảng Ninh" -> "Quảng Ninh"
    <<<<84, 104, 97, 110, 104, 32, 72, 243, 97>>, <<84, 104, 97, 110, 104, 32, 72, 243, 97>>>>,   \* "Thanh Hóa" -> "Thanh Hóa"
    <<<<78, 103, 104, 7879, 32, 65, 110>>, <<78, 103, 104, 7879, 32, 65, 110>>>>,   \* "Nghệ An" -> "Nghệ An"
    <<<<72, 224, 32, 84, 297, 110, 104>>, <<72, 224, 32, 84, 297, 110, 104>>>>,   \* "Hà Tĩnh" -> "Hà Tĩnh"
    <<<<67, 97, 111, 32, 66, 7857, 110, 103>>, <<67, 97, 111, 32, 66, 7857, 110, 103>>>> >>   \* "Cao Bằng" -> "Cao Bằng"

\* str.lower() on the characters beyond ASCII that occur in the names drawn:
\* the characters it changes.
lower_table ==
    (192 :> 224) @@ (195 :> 227) @@ (196 :> 228) @@ (198 :> 230) @@
    (199 :> 231) @@ (203 :> 235) @@ (205 :> 237) @@ (211 :> 243) @@
    (272 :> 273) @@ (7896 :> 7897)

\* unicodedata.normalize('NFD', c) on the characters that occur in the names
\* drawn: the characters that decompose.
nfd_table ==
    (192 :> <<65, 768>>) @@ (195 :> <<65, 771>>) @@ (196 :> <<65, 776>>) @@
    (199 :> <<67, 807>>) @@ (203 :> <<69, 776>>) @@ (205 :> <<73, 769>>) @@
    (211 :> <<79, 769>>) @@ (224 :> <<97, 768>>) @@ (225 :> <<97, 769>>) @@
    (226 :> <<97, 770>>) @@ (227 :> <<97, 771>>) @@ (228 :> <<97, 776>>) @@
    (231 :> <<99, 807>>) @@ (233 :> <<101, 769>>) @@
    (234 :> <<101, 770>>) @@ (235 :> <<101, 776>>) @@
    (236 :> <<105, 768>>) @@ (237 :> <<105, 769>>) @@
    (242 :> <<111, 768>>) @@ (243 :> <<111, 769>>) @@
    (244 :> <<111, 770>>) @@ (250 :> <<117, 769>>) @@
    (255 :> <<121, 776>>) @@ (259 :> <<97, 774>>) @@
    (297 :> <<105, 771>>) @@ (361 :> <<117, 771>>) @@
    (417 :> <<111, 795>>) @@ (432 :> <<117, 795>>) @@
    (7717 :> <<104, 803>>) @@ (7841 :> <<97, 803>>) @@
    (7843 :> <<97, 777>>) @@ (7845 :> <<97, 770, 769>>) @@
    (7847 :> <<97, 770, 768>>) @@ (7853 :> <<97, 803, 770>>) @@
    (7855 :> <<97, 774, 769>>) @@ (7857 :> <<97, 774, 768>>) @@
    (7861 :> <<97, 774, 771>>) @@ (7871 :> <<101, 770, 769>>) @@
    (7873 :> <<101, 770, 768>>) @@ (7879 :> <<101, 803, 770>>) @@
    (7881 :> <<105, 777>>) @@ (7883 :> <<105, 803>>) @@
    (7885 :> <<111, 803>>) @@ (7889 :> <<111, 770, 769>>) @@
    (7891 :> <<111, 770, 768>>) @@ (7896 :> <<79, 803, 770>>) @@
    (7897 :> <<111, 803, 770>>) @@ (7899 :> <<111, 795, 769>>) @@
    (7901 :> <<111, 795, 768>>) @@ (7915 :> <<117, 795, 768>>) @@
    (7917 :> <<117, 795, 777>>)

\* The characters of category Mn among them.
Mn == {768, 769, 770, 771, 774, 776, 777, 795, 803, 807}

\* The characters c < 0x3100 with c.isspace(), which are those matched by \s.
WhiteSpace ==
    {9, 10, 11, 12, 13, 28, 29, 30, 31, 32, 133, 160,
     5760, 8192, 8193, 8194, 8195, 8196, 8197, 8198, 8199, 8200, 8201, 8202, 8232, 8233, 8239, 8287, 12288}

\* str.strip(): without leading and trailing white space.
strip(s) ==
    LET black == {i \in DOMAIN s : s[i] \notin WhiteSpace} IN
    IF black = {} THEN <<>>
    ELSE SubSeq(s, CHOOSE i \in black : \A j \in black : i <= j,
                   CHOOSE i \in black : \A j \in black : j <= i)

\* str.lower()
lower(s) ==
    [i \in DOMAIN s |->
        IF s[i] \in 65..90 THEN s[i] + 32
        ELSE IF s[i] \in DOMAIN lower_table THEN lower_table[s[i]]
        ELSE s[i]]

\* str.replace(a, b) for single characters a and b.
replace(s, a, b) == [i \in DOMAIN s |-> IF s[i] = a THEN b ELSE s[i]]

\* unicodedata.normalize("NFD", s).  The order of the marks of one
\* character is that of its decomposition.
NFD(s) ==
    Flatten([i \in DOMAIN s |->
                IF s[i] \in DOMAIN nfd_table THEN nfd_table[s[i]] ELSE <<s[i]>>])

\* re.sub(r"\s+", " ", s): every run of white space becomes one space.
collapse_spaces(s) ==
    LET first == SelectSeq([i \in DOMAIN s |-> i],
                           LAMBDA i : \/ s[i] \notin WhiteSpace
                                      \/ i = 1
                                      \/ s[i - 1] \notin WhiteSpace)
    IN [k \in DOMAIN first |-> IF s[first[k]] \in WhiteSpace THEN 32 ELSE s[first[k]]]

\* re.sub(r"[^a-z0-9\s\-]", "", s)
keep_alnum_space_hyphen(s) ==
    SelectSeq(s, LAMBDA c : \/ c \in 97..122
                            \/ c \in 48..57
                            \/ c \in WhiteSpace
                            \/ c = 45)

\* normalize(text): 273 is d with stroke, 272 its capital, 8211 and 8212 the
\* en and em dash, 45 the hyphen, 100 the letter d.
normalize(text) ==
    LET s1 == lower(strip(text))
        s2 == replace(replace(s1, 273, 100), 272, 100)
        s3 == replace(replace(s2, 8211, 45), 8212, 45)
        s4 == NFD(s3)
        s5 == SelectSeq(s4, LAMBDA c : c \notin Mn)
        s6 == collapse_spaces(s5)
        s7 == keep_alnum_space_hyphen(s6)
    IN strip(s7)

\* canonical_34 = sorted(set(mapping_34["new"].unique()))
canonical_34 == {mapping_34[i][2] : i \in DOMAIN mapping_34}

\* Order of two strings, as sorted() compares them.
RECURSIVE StrLess(_, _)
StrLess(a, b) ==
    IF b = <<>> THEN FALSE
    ELSE IF a = <<>> THEN TRUE
    ELSE IF a[1] # b[1] THEN a[1] < b[1]
    ELSE StrLess(Tail(a), Tail(b))

\* alias_map.update({...}): the keys written as normalize(...) are computed.
alias_overrides == <<
    <<<<100, 97, 99, 32, 108, 97, 107>>, Name.Dak_Lak>>,   \* "dac lak": "Đắk Lắk"
    <<<<100, 97, 99, 32, 110, 111, 110, 103>>, Name.Lam_Dong>>,   \* "dac nong": "Lâm Đồng"
    <<<<98, 97, 32, 114, 105, 97, 32, 45, 32, 118, 117, 110, 103, 32, 116, 97, 117>>, Name.TP_Ho_Chi_Minh>>,   \* "ba ria - vung tau": "TP. Hồ Chí Minh"
    <<<<98, 97, 32, 114, 105, 97, 32, 118, 117, 110, 103, 32, 116, 97, 117>>, Name.TP_Ho_Chi_Minh>>,   \* "ba ria vung tau": "TP. Hồ Chí Minh"
    <<normalize(<<72, 224, 32, 78, 7897, 105>>), Name.TP_Ha_Noi>>,   \* normalize("Hà Nội"): "TP. Hà Nội"
    <<normalize(<<72, 7843, 105, 32, 80, 104, 242, 110, 103>>), Name.TP_Hai_Phong>>,   \* normalize("Hải Phòng"): "TP. Hải Phòng"
    <<normalize(<<72, 117, 7871>>), Name.TP_Hue>>,   \* normalize("Huế"): "TP. Huế"
    <<normalize(<<272, 224, 32, 78, 7861, 110, 103>>), Name.TP_Da_Nang>>,   \* normalize("Đà Nẵng"): "TP. Đà Nẵng"
    <<normalize(<<67, 7847, 110, 32, 84, 104, 417>>), Name.TP_Can_Tho>>,   \* normalize("Cần Thơ"): "TP. Cần Thơ"
    <<normalize(<<84, 104, 7915, 97, 32, 84, 104, 105, 234, 110, 32, 72, 117, 7871>>), Name.TP_Hue>>,   \* normalize("Thừa Thiên Huế"): "TP. Huế"
    <<<<116, 112, 32, 104, 111, 32, 99, 104, 105, 32, 109, 105, 110, 104>>, Name.TP_Ho_Chi_Minh>>,   \* "tp ho chi minh": "TP. Hồ Chí Minh"
    <<normalize(<<272, 7891, 110, 103, 32, 98, 7857, 110, 103, 32, 115, 244, 110, 103, 32, 72, 7891, 110, 103>>), Name.TP_Ha_Noi>>,   \* normalize("Đồng bằng sông Hồng"): "TP. Hà Nội"
    <<normalize(<<84, 114, 117, 110, 103, 32, 100, 117, 32, 118, 224, 32, 109, 105, 7873, 110, 32, 110, 250, 105, 32, 112, 104, 237, 97, 32, 66, 7855, 99>>), Name.Cao_Bang>>,   \* normalize("Trung du và miền núi phía Bắc"): "Cao Bằng"
    <<normalize(<<66, 7855, 99, 32, 84, 114, 117, 110, 103, 32, 66, 7897, 32, 118, 224, 32, 68, 117, 121, 234, 110, 32, 104, 7843, 105, 32, 109, 105, 7873, 110, 32, 84, 114, 117, 110, 103>>), Name.Thanh_Hoa>>,   \* normalize("Bắc Trung Bộ và Duyên hải miền Trung"): "Thanh Hóa"
    <<normalize(<<84, 226, 121, 32, 78, 103, 117, 121, 234, 110>>), Name.Dak_Lak>>,   \* normalize("Tây Nguyên"): "Đắk Lắk"
    <<normalize(<<272, 244, 110, 103, 32, 78, 97, 109, 32, 66, 7897>>), Name.TP_Ho_Chi_Minh>>,   \* normalize("Đông Nam Bộ"): "TP. Hồ Chí Minh"
    <<normalize(<<272, 7891, 110, 103, 32, 98, 7857, 110, 103, 32, 115, 244, 110, 103, 32, 67, 7917, 117, 32, 76, 111, 110, 103>>), Name.TP_Can_Tho>>,   \* normalize("Đồng bằng sông Cửu Long"): "TP. Cần Thơ"
    <<normalize(<<84, 104, 7915, 97, 32, 84, 104, 105, 234, 110, 32, 45, 32, 72, 117, 7871>>), Name.TP_Hue>> >>   \* normalize("Thừa Thiên - Huế"): "TP. Huế"

CORRUPTED_WEATHER == <<
    <<<<66, 175, 99, 32, 78, 105, 110, 104>>, Name.Bac_Ninh>>,   \* "B¯c Ninh": "Bắc Ninh"
    <<<<81, 117, 163, 110, 103, 32, 78, 105, 110, 104>>, Name.Quang_Ninh>>,   \* "Qu£ng Ninh": "Quảng Ninh"
    <<<<76, 226, 109, 32, 16, 211, 110, 103>>, Name.Lam_Dong>>,   \* "Lâm \x10Óng": "Lâm Đồng"
    <<<<84, 104, 225, 105, 32, 78, 103, 117, 121, 234, 110>>, Name.Thai_Nguyen>>,   \* "Thái Nguyên": "Thái Nguyên"
    <<<<72, 176, 110, 103, 32, 89, 234, 110>>, Name.Hung_Yen>>,   \* "H°ng Yên": "Hưng Yên"
    <<<<16, 105, 199, 110, 32, 66, 105, 234, 110>>, Name.Dien_Bien>>,   \* "\x10iÇn Biên": "Điện Biên"
    <<<<81, 117, 163, 110, 103, 32, 84, 114, 203>>, Name.Quang_Tri>>,   \* "Qu£ng TrË": "Quảng Trị"
    <<<<71, 105, 97, 32, 76, 97, 105>>, Name.Gia_Lai>>,   \* "Gia Lai": "Gia Lai"
    <<<<67, 97, 111, 32, 66, 177, 110, 103>>, Name.Cao_Bang>>,   \* "Cao B±ng": "Cao Bằng"
    <<<<65, 110, 32, 71, 105, 97, 110, 103>>, Name.An_Giang>>,   \* "An Giang": "An Giang"
    <<<<16, 175, 107, 32, 76, 175, 107>>, Name.Dak_Lak>>,   \* "\x10¯k L¯k": "Đắk Lắk"
    <<<<84, 80, 46, 32, 16, 224, 32, 78, 181, 110, 103>>, Name.TP_Da_Nang>>,   \* "TP. \x10à Nµng": "TP. Đà Nẵng"
    <<<<86, 41, 110, 104, 32, 76, 111, 110, 103>>, Name.Vinh_Long>>,   \* "V)nh Long": "Vĩnh Long"
    <<<<84, 226, 121, 32, 78, 105, 110, 104>>, Name.Tay_Ninh>>,   \* "Tây Ninh": "Tây Ninh"
    <<<<81, 117, 163, 110, 103, 32, 78, 103, 227, 105>>, Name.Quang_Ngai>>,   \* "Qu£ng Ngãi": "Quảng Ngãi"
    <<<<84, 104, 97, 110, 104, 32, 72, 243, 97>>, Name.Thanh_Hoa>>,   \* "Thanh Hóa": "Thanh Hóa"
    <<<<84, 80, 46, 32, 67, 167, 110, 32, 84, 104, 161>>, Name.TP_Can_Tho>>,   \* "TP. C§n Th¡": "TP. Cần Thơ"
    <<<<76, 224, 111, 32, 67, 97, 105>>, Name.Lao_Cai>>,   \* "Lào Cai": "Lào Cai"
    <<<<80, 104, 250, 32, 84, 104, 205>>, Name.Phu_Tho>>,   \* "Phú ThÍ": "Phú Thọ"
    <<<<16, 211, 110, 103, 32, 78, 97, 105>>, Name.Dong_Nai>>,   \* "\x10Óng Nai": "Đồng Nai"
    <<<<16, 211, 110, 103, 32, 84, 104, 225, 112>>, Name.Dong_Thap>>,   \* "\x10Óng Tháp": "Đồng Tháp"
    <<<<67, 224, 32, 77, 97, 117>>, Name.Ca_Mau>>,   \* "Cà Mau": "Cà Mau"
    <<<<72, 224, 32, 84, 41, 110, 104>>, Name.Ha_Tinh>>,   \* "Hà T)nh": "Hà Tĩnh"
    <<<<76, 161, 110, 103, 32, 83, 161, 110>>, Name.Lang_Son>>,   \* "L¡ng S¡n": "Lạng Sơn"
    <<<<78, 103, 104, 199, 32, 65, 110>>, Name.Nghe_An>>,   \* "NghÇ An": "Nghệ An"
    <<<<78, 105, 110, 104, 32, 66, 769, 110, 104>>, Name.Ninh_Binh>>,   \* "Ninh B́nh": "Ninh Bình"
    <<<<81, 117, 163, 110, 103, 32, 78, 103, 259, 105>>, Name.Quang_Ngai>>,   \* "Qu£ng Ngăi": "Quảng Ngãi"
    <<<<83, 161, 110, 32, 76, 97>>, Name.Son_La>>,   \* "S¡n La": "Sơn La"
    <<<<84, 80, 46, 32, 72, 163, 105, 32, 80, 104, 803, 110, 103>>, Name.TP_Hai_Phong>>,   \* "TP. H£i Pḥng": "TP. Hải Phòng"
    <<<<84, 80, 46, 32, 72, 163, 105, 32, 80, 104, 242, 110, 103>>, Name.TP_Hai_Phong>>,   \* "TP. H£i Phòng": "TP. Hải Phòng"
    <<<<84, 80, 46, 32, 72, 211, 32, 67, 104, 237, 32, 77, 105, 110, 104>>, Name.TP_Ho_Chi_Minh>> >>   \* "TP. HÓ Chí Minh": "TP. Hồ Chí Minh"

DISTRICT_MAP == <<
    <<<<104, 111, 32, 99, 104, 105, 32, 109, 105, 110, 104>>, Name.TP_Ho_Chi_Minh>>,   \* "ho chi minh": "TP. Hồ Chí Minh"
    <<<<116, 104, 97, 110, 104, 32, 112, 104, 111, 32, 104, 111, 32, 99, 104, 105, 32, 109, 105, 110, 104>>, Name.TP_Ho_Chi_Minh>>,   \* "thanh pho ho chi minh": "TP. Hồ Chí Minh"
    <<<<116, 112, 104, 111, 32, 99, 104, 105, 32, 109, 105, 110, 104>>, Name.TP_Ho_Chi_Minh>>,   \* "tpho chi minh": "TP. Hồ Chí Minh"
    <<<<116, 104, 117, 97, 32, 116, 104, 105, 101, 110, 32, 104, 117, 101>>, Name.TP_Hue>>,   \* "thua thien hue": "TP. Huế"
    <<<<116, 104, 117, 97, 32, 116, 104, 105, 101, 110, 32, 45, 32, 104, 117, 101>>, Name.TP_Hue>>,   \* "thua thien - hue": "TP. Huế"
    <<<<99, 104, 97, 117, 32, 100, 111, 99>>, Name.An_Giang>>,   \* "chau doc": "An Giang"
    <<<<116, 104, 97, 110, 104, 32, 112, 104, 111, 32, 99, 104, 97, 117, 32, 100, 111, 99>>, Name.An_Giang>>,   \* "thanh pho chau doc": "An Giang"
    <<<<116, 114, 105, 32, 116, 111, 110>>, Name.An_Giang>>,   \* "tri ton": "An Giang"
    <<<<116, 105, 110, 104, 32, 98, 105, 101, 110>>, Name.An_Giang>>,   \* "tinh bien": "An Giang"
    <<<<116, 104, 111, 97, 105, 32, 115, 111, 110>>, Name.An_Giang>>,   \* "thoai son": "An Giang"
    <<<<108, 111, 110, 103, 32, 120, 117, 121, 101, 110>>, Name.An_Giang>>,   \* "long xuyen": "An Giang"
    <<<<97, 110, 32, 112, 104, 117>>, Name.An_Giang>>,   \* "an phu": "An Giang"
    <<<<115, 97, 32, 100, 101, 99>>, Name.Dong_Thap>>,   \* "sa dec": "Đồng Tháp"
    <<<<116, 104, 97, 110, 104, 32, 112, 104, 111, 32, 115, 97, 32, 100, 101, 99>>, Name.Dong_Thap>>,   \* "thanh pho sa dec": "Đồng Tháp"
    <<<<116, 97, 109, 32, 110, 111, 110, 103>>, Name.Dong_Thap>>,   \* "tam nong": "Đồng Tháp"
    <<<<116, 104, 97, 112, 32, 109, 117, 111, 105>>, Name.Dong_Thap>>,   \* "thap muoi": "Đồng Tháp"
    <<<<104, 117, 121, 101, 110, 32, 116, 104, 97, 112, 32, 109, 117, 111, 105>>, Name.Dong_Thap>>,   \* "huyen thap muoi": "Đồng Tháp"
    <<<<99, 97, 111, 32, 108, 97, 110, 104>>, Name.Dong_Thap>>,   \* "cao lanh": "Đồng Tháp"
    <<<<107, 111, 110, 32, 107, 97, 32, 107, 105, 110, 104>>, Name.Gia_Lai>>,   \* "kon ka kinh": "Gia Lai"
    <<<<100, 97, 107, 32, 108, 97, 107>>, Name.Dak_Lak>>,   \* "dak lak": "Đắk Lắk"
    <<<<97, 107, 32, 108, 97, 107>>, Name.Dak_Lak>>,   \* "ak lak": "Đắk Lắk"
    <<<<97, 99, 32, 108, 97, 107>>, Name.Dak_Lak>>,   \* "ac lak": "Đắk Lắk"
    <<<<100, 97, 99, 32, 108, 97, 107>>, Name.Dak_Lak>>,   \* "dac lak": "Đắk Lắk"
    <<<<100, 97, 107, 32, 110, 111, 110, 103>>, Name.Lam_Dong>>,   \* "dak nong": "Lâm Đồng"
    <<<<97, 107, 32, 110, 111, 110, 103>>, Name.Lam_Dong>>,   \* "ak nong": "Lâm Đồng"
    <<<<97, 99, 32, 110, 111, 110, 103>>, Name.Lam_Dong>>,   \* "ac nong": "Lâm Đồng"
    <<<<100, 97, 99, 32, 110, 111, 110, 103>>, Name.Lam_Dong>> >>   \* "dac nong": "Lâm Đồng"

PREFIXES == <<
    <<118, 117, 111, 110, 32, 113, 117, 111, 99, 32, 103, 105, 97>>,   \* "vuon quoc gia"
    <<116, 104, 97, 110, 104, 32, 112, 104, 111>>,   \* "thanh pho"
    <<116, 112>>,   \* "tp"
    <<116, 104, 105, 32, 120, 97>>,   \* "thi xa"
    <<113, 117, 97, 110>>,   \* "quan"
    <<104, 117, 121, 101, 110>>,   \* "huyen"
    <<116, 104, 105, 32, 116, 114, 97, 110>>,   \* "thi tran"
    <<100, 105, 32, 116, 105, 99, 104>> >>   \* "di tich"

\* key in d, for a dict written as the sequence of its (key, value) items.
InDict(d, key) == \E i \in DOMAIN d : d[i][1] = key
\* d[key]: of two items with one key the later one counts.
Get(d, key) ==
    d[CHOOSE i \in DOMAIN d : d[i][1] = key /\ \A j \in DOMAIN d : d[j][1] = key => j <= i][2]

\* alias_map.get(norm): <<>> for a key not in alias_map, <<name>> otherwise.
\*  - for canonical in canonical_34: alias_map[normalize(canonical)] =
\*    canonical (the last name in sort order wins a shared key);
\*  - for old, new in old_to_new.items(): a key not yet in alias_map gets new
\*    (the first row wins a shared key; old_to_new = dict(zip(old, new)) holds
\*    for an old name the new name of its last row);
\*  - alias_map.update({...}) overwrites.
alias_get(norm) ==
    LET canonicals == {c \in canonical_34 : normalize(c) = norm /\ norm # <<>>}
        olds == {i \in DOMAIN mapping_34 :
                    normalize(mapping_34[i][1]) = norm /\ norm # <<>>}
    IN  IF InDict(alias_overrides, norm) THEN <<Get(alias_overrides, norm)>>
        ELSE IF canonicals # {}
        THEN <<CHOOSE c \in canonicals : \A e \in canonicals : e = c \/ StrLess(e, c)>>
        ELSE IF olds # {}
        THEN LET i == CHOOSE x \in olds : \A y \in olds : x <= y
                 last == CHOOSE x \in DOMAIN mapping_34 :
                            /\ mapping_34[x][1] = mapping_34[i][1]
                            /\ \A y \in DOMAIN mapping_34 :
                                  mapping_34[y][1] = mapping_34[i][1] => y <= x
             IN <<mapping_34[last][2]>>
        ELSE <<>>

\* norm in alias_map
in_alias_map(norm) == alias_get(norm) # <<>>

\* alias_map[norm]
alias_map(norm) == alias_get(norm)[1]

\* raw.encode("latin1", errors="ignore"): the characters below 256, as bytes.
encode_latin1_ignore(s) == SelectSeq(s, LAMBDA c : c < 256)

\* bytes.decode("utf-8", errors="ignore"): an ill-formed sequence is dropped
\* up to the byte that breaks it, and decoding resumes at that byte.
RECURSIVE decode_utf8_ignore(_)
decode_utf8_ignore(b) ==
    IF b = <<>> THEN <<>>
    ELSE LET n == Len(b)
             b1 == b[1]
             From(k) == decode_utf8_ignore(SubSeq(b, k, n))
             IsContinuation(x) == x \in 128..191
             \* the second byte that may follow the lead byte of a 3-byte
             \* and of a 4-byte sequence
             SecondOf3(x) == IF b1 = 224 THEN x \in 160..191
                             ELSE IF b1 = 237 THEN x \in 128..159
                             ELSE IsContinuation(x)
             SecondOf4(x) == IF b1 = 240 THEN x \in 144..191
                             ELSE IF b1 = 244 THEN x \in 128..143
                             ELSE IsContinuation(x)
         IN IF b1 < 128 THEN <<b1>> \o From(2)
            ELSE IF b1 \in 194..223
            THEN IF n >= 2 /\ IsContinuation(b[2])
                 THEN <<(b1 - 192) * 64 + (b[2] - 128)>> \o From(3)
                 ELSE From(2)
            ELSE IF b1 \in 224..239
            THEN IF n >= 2 /\ SecondOf3(b[2])
                 THEN IF n >= 3 /\ IsContinuation(b[3])
                      THEN <<(b1 - 224) * 4096 + (b[2] - 128) * 64 + (b[3] - 128)>>
                               \o From(4)
                      ELSE From(3)
                 ELSE From(2)
            ELSE IF b1 \in 240..244
            THEN IF n >= 2 /\ SecondOf4(b[2])
                 THEN IF n >= 3 /\ IsContinuation(b[3])
                      THEN IF n >= 4 /\ IsContinuation(b[4])
                           THEN <<(b1 - 240) * 262144 + (b[2] - 128) * 4096
                                      + (b[3] - 128) * 64 + (b[4] - 128)>> \o From(5)
                           ELSE From(4)
                      ELSE From(3)
                 ELSE From(2)
            ELSE From(2)

\* str.startswith(prefix)
startswith(s, prefix) ==
    Len(s) >= Len(prefix) /\ SubSeq(s, 1, Len(prefix)) = prefix

\* for prefix in PREFIXES: ...; return "" -- from the k-th prefix on.
RECURSIVE strip_prefix_KeepsName(_, _)
strip_prefix_KeepsName(norm, k) ==
    IF k > Len(PREFIXES) THEN norm
    ELSE LET prefix == PREFIXES[k]
             rest == replace(strip(SubSeq(norm, Len(prefix) + 1, Len(norm))), 45, 32)
         IN IF startswith(norm, prefix \o <<32>>) \/ startswith(norm, prefix \o <<45>>)
            THEN IF in_alias_map(rest) THEN alias_map(rest)
                 ELSE IF InDict(DISTRICT_MAP, rest) THEN Get(DISTRICT_MAP, rest)
                 ELSE strip_prefix_KeepsName(norm, k + 1)
            ELSE strip_prefix_KeepsName(norm, k + 1)
\* A variant that falls back to the name behind the prefix.
RECURSIVE strip_prefix_ReturnsRest(_, _)
strip_prefix_ReturnsRest(norm, k) ==
    IF k > Len(PREFIXES) THEN <<>>
    ELSE LET prefix == PREFIXES[k]
             rest == replace(strip(SubSeq(norm, Len(prefix) + 1, Len(norm))), 45, 32)
         IN IF startswith(norm, prefix \o <<32>>) \/ startswith(norm, prefix \o <<45>>)
            THEN IF in_alias_map(rest) THEN alias_map(rest)
                 ELSE IF InDict(DISTRICT_MAP, rest) THEN Get(DISTRICT_MAP, rest)
                 ELSE rest
            ELSE strip_prefix_ReturnsRest(norm, k + 1)
RECURSIVE strip_prefix(_, _)
strip_prefix(norm, k) ==
    IF k > Len(PREFIXES) THEN <<>>
    ELSE LET prefix == PREFIXES[k]
             rest == replace(strip(SubSeq(norm, Len(prefix) + 1, Len(norm))), 45, 32)
         IN IF startswith(norm, prefix \o <<32>>) \/ startswith(norm, prefix \o <<45>>)
            THEN IF in_alias_map(rest) THEN alias_map(rest)
                 ELSE IF InDict(DISTRICT_MAP, rest) THEN Get(DISTRICT_MAP, rest)
                 ELSE strip_prefix(norm, k + 1)
            ELSE strip_prefix(norm, k + 1)

\* normalize_province(raw_name); raw_name is NaN or <<string>>.
normalize_province(name) ==
    IF name = NaN THEN <<>>
    ELSE IF strip(name[1]) = <<>> THEN <<>>
    ELSE LET raw == strip(name[1])
             repaired == decode_utf8_ignore(encode_latin1_ignore(raw))
             norm_repaired == normalize(repaired)
             norm == normalize(raw)
         IN IF InDict(CORRUPTED_WEATHER, raw) THEN Get(CORRUPTED_WEATHER, raw)
            ELSE IF repaired # <<>> /\ repaired # raw /\ in_alias_map(norm_repaired)
            THEN alias_map(norm_repaired)
            ELSE IF repaired # <<>> /\ repaired # raw /\ InDict(DISTRICT_MAP, norm_repaired)
            THEN Get(DISTRICT_MAP, norm_repaired)
            ELSE IF in_alias_map(norm) THEN alias_map(norm)
            ELSE IF InDict(DISTRICT_MAP, norm) THEN Get(DISTRICT_MAP, norm)
            ELSE strip_prefix(norm, 1)

\* Province names given to normalize_province.
raw_names == <<
    <<>>,   \* ""
    <<32, 32, 32>>,   \* "   "
    <<32, 9, 32>>,   \* " \x09 "
    <<65, 110, 32, 71, 105, 97, 110, 103>>,   \* "An Giang"
    <<66, 7855, 99, 32, 78, 105, 110, 104>>,   \* "Bắc Ninh"
    <<67, 97, 111, 32, 66, 7857, 110, 103>>,   \* "Cao Bằng"
    <<67, 224, 32, 77, 97, 117>>,   \* "Cà Mau"
    <<71, 105, 97, 32, 76, 97, 105>>,   \* "Gia Lai"
    <<72, 224, 32, 84, 297, 110, 104>>,   \* "Hà Tĩnh"
    <<72, 432, 110, 103, 32, 89, 234, 110>>,   \* "Hưng Yên"
    <<75, 104, 225, 110, 104, 32, 72, 242, 97>>,   \* "Khánh Hòa"
    <<76, 97, 105, 32, 67, 104, 226, 117>>,   \* "Lai Châu"
    <<76, 224, 111, 32, 67, 97, 105>>,   \* "Lào Cai"
    <<76, 226, 109, 32, 272, 7891, 110, 103>>,   \* "Lâm Đồng"
    <<76, 7841, 110, 103, 32, 83, 417, 110>>,   \* "Lạng Sơn"
    <<78, 103, 104, 7879, 32, 65, 110>>,   \* "Nghệ An"
    <<78, 105, 110, 104, 32, 66, 236, 110, 104>>,   \* "Ninh Bình"
    <<80, 104, 250, 32, 84, 104, 7885>>,   \* "Phú Thọ"
    <<81, 117, 7843, 110, 103, 32, 78, 103, 227, 105>>,   \* "Quảng Ngãi"
    <<81, 117, 7843, 110, 103, 32, 78, 105, 110, 104>>,   \* "Quảng Ninh"
    <<81, 117, 7843, 110, 103, 32, 84, 114, 7883>>,   \* "Quảng Trị"
    <<83, 417, 110, 32, 76, 97>>,   \* "Sơn La"
    <<84, 80, 46, 32, 67, 7847, 110, 32, 84, 104, 417>>,   \* "TP. Cần Thơ"
    <<84, 80, 46, 32, 72, 117, 7871>>,   \* "TP. Huế"
    <<84, 80, 46, 32, 72, 224, 32, 78, 7897, 105>>,   \* "TP. Hà Nội"
    <<84, 80, 46, 32, 72, 7843, 105, 32, 80, 104, 242, 110, 103>>,   \* "TP. Hải Phòng"
    <<84, 80, 46, 32, 72, 7891, 32, 67, 104, 237, 32, 77, 105, 110, 104>>,   \* "TP. Hồ Chí Minh"
    <<84, 80, 46, 32, 272, 224, 32, 78, 7861, 110, 103>>,   \* "TP. Đà Nẵng"
    <<84, 104, 97, 110, 104, 32, 72, 243, 97>>,   \* "Thanh Hóa"
    <<84, 104, 225, 105, 32, 78, 103, 117, 121, 234, 110>>,   \* "Thái Nguyên"
    <<84, 117, 121, 234, 110, 32, 81, 117, 97, 110, 103>>,   \* "Tuyên Quang"
    <<84, 226, 121, 32, 78, 105, 110, 104>>,   \* "Tây Ninh"
    <<86, 297, 110, 104, 32, 76, 111, 110, 103>>,   \* "Vĩnh Long"
    <<272, 105, 7879, 110, 32, 66, 105, 234, 110>>,   \* "Điện Biên"
    <<272, 7855, 107, 32, 76, 7855, 107>>,   \* "Đắk Lắk"
    <<272, 7891, 110, 103, 32, 78, 97, 105>>,   \* "Đồng Nai"
    <<272, 7891, 110, 103, 32, 84, 104, 225, 112>>,   \* "Đồng Tháp"
    <<66, 175, 99, 32, 78, 105, 110, 104>>,   \* "B¯c Ninh"
    <<81, 117, 163, 110, 103, 32, 78, 105, 110, 104>>,   \* "Qu£ng Ninh"
    <<76, 226, 109, 32, 16, 211, 110, 103>>,   \* "Lâm \x10Óng"
    <<72, 176, 110, 103, 32, 89, 234, 110>>,   \* "H°ng Yên"
    <<16, 105, 199, 110, 32, 66, 105, 234, 110>>,   \* "\x10iÇn Biên"
    <<81, 117, 163, 110, 103, 32, 84, 114, 203>>,   \* "Qu£ng TrË"
    <<67, 97, 111, 32, 66, 177, 110, 103>>,   \* "Cao B±ng"
    <<16, 175, 107, 32, 76, 175, 107>>,   \* "\x10¯k L¯k"
    <<84, 80, 46, 32, 16, 224, 32, 78, 181, 110, 103>>,   \* "TP. \x10à Nµng"
    <<86, 41, 110, 104, 32, 76, 111, 110, 103>>,   \* "V)nh Long"
    <<81, 117, 163, 110, 103, 32, 78, 103, 227, 105>>,   \* "Qu£ng Ngãi"
    <<84, 80, 46, 32, 67, 167, 110, 32, 84, 104, 161>>,   \* "TP. C§n Th¡"
    <<80, 104, 250, 32, 84, 104, 205>>,   \* "Phú ThÍ"
    <<16, 211, 110, 103, 32, 78, 97, 105>>,   \* "\x10Óng Nai"
    <<16, 211, 110, 103, 32, 84, 104, 225, 112>>,   \* "\x10Óng Tháp"
    <<72, 224, 32, 84, 41, 110, 104>>,   \* "Hà T)nh"
    <<76, 161, 110, 103, 32, 83, 161, 110>>,   \* "L¡ng S¡n"
    <<78, 103, 104, 199, 32, 65, 110>>,   \* "NghÇ An"
    <<78, 105, 110, 104, 32, 66, 769, 110, 104>>,   \* "Ninh B́nh"
    <<81, 117, 163, 110, 103, 32, 78, 103, 259, 105>>,   \* "Qu£ng Ngăi"
    <<83, 161, 110, 32, 76, 97>>,   \* "S¡n La"
    <<84, 80, 46, 32, 72, 163, 105, 32, 80, 104, 803, 110, 103>>,   \* "TP. H£i Pḥng"
    <<84, 80, 46, 32, 72, 163, 105, 32, 80, 104, 242, 110, 103>>,   \* "TP. H£i Phòng"
    <<84, 80, 46, 32, 72, 211, 32, 67, 104, 237, 32, 77, 105, 110, 104>>,   \* "TP. HÓ Chí Minh"
    <<72, 224, 32, 71, 105, 97, 110, 103>>,   \* "Hà Giang"
    <<89, 234, 110, 32, 66, 225, 105>>,   \* "Yên Bái"
    <<66, 7855, 99, 32, 75, 7841, 110>>,   \* "Bắc Kạn"
    <<86, 297, 110, 104, 32, 80, 104, 250, 99>>,   \* "Vĩnh Phúc"
    <<72, 242, 97, 32, 66, 236, 110, 104>>,   \* "Hòa Bình"
    <<66, 7855, 99, 32, 71, 105, 97, 110, 103>>,   \* "Bắc Giang"
    <<84, 104, 225, 105, 32, 66, 236, 110, 104>>,   \* "Thái Bình"
    <<72, 7843, 105, 32, 68, 432, 417, 110, 103>>,   \* "Hải Dương"
    <<72, 224, 32, 78, 97, 109>>,   \* "Hà Nam"
    <<78, 97, 109, 32, 272, 7883, 110, 104>>,   \* "Nam Định"
    <<81, 117, 7843, 110, 103, 32, 66, 236, 110, 104>>,   \* "Quảng Bình"
    <<81, 117, 7843, 110, 103, 32, 78, 97, 109>>,   \* "Quảng Nam"
    <<75, 111, 110, 32, 84, 117, 109>>,   \* "Kon Tum"
    <<66, 236, 110, 104, 32, 272, 7883, 110, 104>>,   \* "Bình Định"
    <<78, 105, 110, 104, 32, 84, 104, 117, 7853, 110>>,   \* "Ninh Thuận"
    <<272, 7855, 107, 32, 78, 244, 110, 103>>,   \* "Đắk Nông"
    <<66, 236, 110, 104, 32, 84, 104, 117, 7853, 110>>,   \* "Bình Thuận"
    <<80, 104, 250, 32, 89, 234, 110>>,   \* "Phú Yên"
    <<66, 236, 110, 104, 32, 68, 432, 417, 110, 103>>,   \* "Bình Dương"
    <<66, 224, 32, 82, 7883, 97, 32, 8211, 32, 86, 361, 110, 103, 32, 84, 224, 117>>,   \* "Bà Rịa – Vũng Tàu"
    <<66, 236, 110, 104, 32, 80, 104, 432, 7899, 99>>,   \* "Bình Phước"
    <<76, 111, 110, 103, 32, 65, 110>>,   \* "Long An"
    <<83, 243, 99, 32, 84, 114, 259, 110, 103>>,   \* "Sóc Trăng"
    <<72, 7853, 117, 32, 71, 105, 97, 110, 103>>,   \* "Hậu Giang"
    <<66, 7871, 110, 32, 84, 114, 101>>,   \* "Bến Tre"
    <<84, 114, 224, 32, 86, 105, 110, 104>>,   \* "Trà Vinh"
    <<84, 105, 7873, 110, 32, 71, 105, 97, 110, 103>>,   \* "Tiền Giang"
    <<66, 7841, 99, 32, 76, 105, 234, 117>>,   \* "Bạc Liêu"
    <<75, 105, 234, 110, 32, 71, 105, 97, 110, 103>>,   \* "Kiên Giang"
    <<72, 224, 32, 78, 7897, 105>>,   \* "Hà Nội"
    <<72, 7843, 105, 32, 80, 104, 242, 110, 103>>,   \* "Hải Phòng"
    <<72, 117, 7871>>,   \* "Huế"
    <<272, 224, 32, 78, 7861, 110, 103>>,   \* "Đà Nẵng"
    <<67, 7847, 110, 32, 84, 104, 417>>,   \* "Cần Thơ"
    <<84, 104, 7915, 97, 32, 84, 104, 105, 234, 110, 32, 72, 117, 7871>>,   \* "Thừa Thiên Huế"
    <<84, 104, 7915, 97, 32, 84, 104, 105, 234, 110, 32, 45, 32, 72, 117, 7871>>,   \* "Thừa Thiên - Huế"
    <<84, 104, 7915, 97, 32, 84, 104, 105, 234, 110, 45, 72, 117, 7871>>,   \* "Thừa Thiên-Huế"
    <<68, 97, 99, 32, 76, 97, 107>>,   \* "Dac Lak"
    <<272, 7855, 99, 32, 78, 244, 110, 103>>,   \* "Đắc Nông"
    <<66, 224, 32, 82, 7883, 97, 32, 45, 32, 86, 361, 110, 103, 32, 84, 224, 117>>,   \* "Bà Rịa - Vũng Tàu"
    <<66, 224, 32, 82, 7883, 97, 45, 86, 361, 110, 103, 32, 84, 224, 117>>,   \* "Bà Rịa-Vũng Tàu"
    <<66, 224, 32, 82, 7883, 97, 32, 8212, 32, 86, 361, 110, 103, 32, 84, 224, 117>>,   \* "Bà Rịa — Vũng Tàu"
    <<66, 97, 32, 82, 105, 97, 32, 86, 117, 110, 103, 32, 84, 97, 117>>,   \* "Ba Ria Vung Tau"
    <<84, 112, 32, 72, 111, 32, 67, 104, 105, 32, 77, 105, 110, 104>>,   \* "Tp Ho Chi Minh"
    <<84, 80, 46, 72, 7891, 32, 67, 104, 237, 32, 77, 105, 110, 104>>,   \* "TP.Hồ Chí Minh"
    <<84, 80, 32, 72, 67, 77>>,   \* "TP HCM"
    <<272, 7891, 110, 103, 32, 98, 7857, 110, 103, 32, 115, 244, 110, 103, 32, 72, 7891, 110, 103>>,   \* "Đồng bằng sông Hồng"
    <<84, 114, 117, 110, 103, 32, 100, 117, 32, 118, 224, 32, 109, 105, 7873, 110, 32, 110, 250, 105, 32, 112, 104, 237, 97, 32, 66, 7855, 99>>,   \* "Trung du và miền núi phía Bắc"
    <<66, 7855, 99, 32, 84, 114, 117, 110, 103, 32, 66, 7897, 32, 118, 224, 32, 68, 117, 121, 234, 110, 32, 104, 7843, 105, 32, 109, 105, 7873, 110, 32, 84, 114, 117, 110, 103>>,   \* "Bắc Trung Bộ và Duyên hải miền Trung"
    <<84, 226, 121, 32, 78, 103, 117, 121, 234, 110>>,   \* "Tây Nguyên"
    <<272, 244, 110, 103, 32, 78, 97, 109, 32, 66, 7897>>,   \* "Đông Nam Bộ"
    <<272, 7891, 110, 103, 32, 98, 7857, 110, 103, 32, 115, 244, 110, 103, 32, 67, 7917, 117, 32, 76, 111, 110, 103>>,   \* "Đồng bằng sông Cửu Long"
    <<72, 7891, 32, 67, 104, 237, 32, 77, 105, 110, 104>>,   \* "Hồ Chí Minh"
    <<84, 104, 224, 110, 104, 32, 112, 104, 7889, 32, 72, 7891, 32, 67, 104, 237, 32, 77, 105, 110, 104>>,   \* "Thành phố Hồ Chí Minh"
    <<84, 80, 72, 7891, 32, 67, 104, 237, 32, 77, 105, 110, 104>>,   \* "TPHồ Chí Minh"
    <<67, 104, 226, 117, 32, 272, 7889, 99>>,   \* "Châu Đốc"
    <<84, 104, 224, 110, 104, 32, 112, 104, 7889, 32, 67, 104, 226, 117, 32, 272, 7889, 99>>,   \* "Thành phố Châu Đốc"
    <<84, 114, 105, 32, 84, 244, 110>>,   \* "Tri Tôn"
    <<84, 7883, 110, 104, 32, 66, 105, 234, 110>>,   \* "Tịnh Biên"
    <<84, 104, 111, 7841, 105, 32, 83, 417, 110>>,   \* "Thoại Sơn"
    <<76, 111, 110, 103, 32, 88, 117, 121, 234, 110>>,   \* "Long Xuyên"
    <<65, 110, 32, 80, 104, 250>>,   \* "An Phú"
    <<83, 97, 32, 272, 233, 99>>,   \* "Sa Đéc"
    <<84, 104, 224, 110, 104, 32, 112, 104, 7889, 32, 83, 97, 32, 272, 233, 99>>,   \* "Thành phố Sa Đéc"
    <<84, 97, 109, 32, 78, 244, 110, 103>>,   \* "Tam Nông"
    <<84, 104, 225, 112, 32, 77, 432, 7901, 105>>,   \* "Tháp Mười"
    <<72, 117, 121, 7879, 110, 32, 84, 104, 225, 112, 32, 77, 432, 7901, 105>>,   \* "Huyện Tháp Mười"
    <<67, 97, 111, 32, 76, 227, 110, 104>>,   \* "Cao Lãnh"
    <<75, 111, 110, 32, 75, 97, 32, 75, 105, 110, 104>>,   \* "Kon Ka Kinh"
    <<86, 432, 7901, 110, 32, 113, 117, 7889, 99, 32, 103, 105, 97, 32, 75, 111, 110, 32, 75, 97, 32, 75, 105, 110, 104>>,   \* "Vườn quốc gia Kon Ka Kinh"
    <<97, 107, 32, 76, 97, 107>>,   \* "ak Lak"
    <<97, 99, 32, 78, 111, 110, 103>>,   \* "ac Nong"
    <<84, 104, 7883, 32, 120, 227, 32, 84, 7883, 110, 104, 32, 66, 105, 234, 110>>,   \* "Thị xã Tịnh Biên"
    <<84, 104, 7883, 32, 116, 114, 7845, 110, 32, 84, 114, 105, 32, 84, 244, 110>>,   \* "Thị trấn Tri Tôn"
    <<81, 117, 7853, 110, 32, 78, 105, 110, 104, 32, 75, 105, 7873, 117>>,   \* "Quận Ninh Kiều"
    <<72, 117, 121, 7879, 110, 32, 65, 110, 32, 80, 104, 250>>,   \* "Huyện An Phú"
    <<68, 105, 32, 116, 237, 99, 104, 32, 84, 97, 109, 32, 78, 244, 110, 103>>,   \* "Di tích Tam Nông"
    <<84, 104, 224, 110, 104, 32, 112, 104, 7889, 32, 72, 117, 7871>>,   \* "Thành phố Huế"
    <<84, 104, 224, 110, 104, 32, 112, 104, 7889, 32, 72, 224, 32, 78, 7897, 105>>,   \* "Thành phố Hà Nội"
    <<84, 104, 224, 110, 104, 32, 112, 104, 7889, 45, 67, 7847, 110, 32, 84, 104, 417>>,   \* "Thành phố-Cần Thơ"
    <<84, 80, 45, 72, 224, 32, 78, 7897, 105>>,   \* "TP-Hà Nội"
    <<116, 112, 45, 273, 224, 32, 110, 7861, 110, 103>>,   \* "tp-đà nẵng"
    <<72, 117, 121, 7879, 110, 45, 84, 104, 111, 7841, 105, 32, 83, 417, 110>>,   \* "Huyện-Thoại Sơn"
    <<84, 104, 224, 110, 104, 32, 112, 104, 7889, 32, 84, 104, 7915, 97, 32, 84, 104, 105, 234, 110, 32, 45, 32, 72, 117, 7871>>,   \* "Thành phố Thừa Thiên - Huế"
    <<72, 117, 121, 7879, 110, 32, 66, 224, 32, 82, 7883, 97, 32, 45, 32, 86, 361, 110, 103, 32, 84, 224, 117>>,   \* "Huyện Bà Rịa - Vũng Tàu"
    <<84, 104, 224, 110, 104, 32, 112, 104, 7889, 32, 84, 104, 7915, 97, 32, 84, 104, 105, 234, 110, 32, 72, 117, 7871>>,   \* "Thành phố Thừa Thiên Huế"
    <<84, 104, 224, 110, 104, 32, 112, 104, 7889, 32, 66, 224, 32, 82, 7883, 97, 32, 86, 361, 110, 103, 32, 84, 224, 117>>,   \* "Thành phố Bà Rịa Vũng Tàu"
    <<84, 7881, 110, 104, 32, 65, 110, 32, 71, 105, 97, 110, 103>>,   \* "Tỉnh An Giang"
    <<116, 7881, 110, 104, 32, 71, 105, 97, 32, 76, 97, 105>>,   \* "tỉnh Gia Lai"
    <<72, 192, 32, 78, 7896, 73>>,   \* "HÀ NỘI"
    <<104, 224, 32, 32, 110, 7897, 105>>,   \* "hà  nội"
    <<72, 224, 9, 78, 7897, 105>>,   \* "Hà\x09Nội"
    <<32, 32, 72, 224, 32, 78, 7897, 105, 32, 32>>,   \* "  Hà Nội  "
    <<72, 224, 160, 78, 7897, 105>>,   \* "Hà\xa0Nội"
    <<72, 224, 8211, 78, 7897, 105>>,   \* "Hà–Nội"
    <<72, 224, 46, 32, 78, 7897, 105>>,   \* "Hà. Nội"
    <<72, 46, 224, 32, 78, 44, 7897, 105>>,   \* "H.à N,ội"
    <<80, 97, 114, 105, 115>>,   \* "Paris"
    <<49, 50, 51>>,   \* "123"
    <<63, 63, 63>>,   \* "???"
    <<116, 112>>,   \* "tp"
    <<84, 80, 46>>,   \* "TP."
    <<84, 80, 46, 32>>,   \* "TP. "
    <<84, 104, 224, 110, 104, 32, 112, 104, 7889>>,   \* "Thành phố"
    <<81, 117, 7853, 110, 32, 49>>,   \* "Quận 1"
    <<85, 110, 107, 110, 111, 119, 110>>,   \* "Unknown"
    <<83, 227, 111, 32, 80, 97, 117, 108, 111>>,   \* "São Paulo"
    <<86, 432, 7901, 110, 32, 113, 117, 7889, 99, 32, 103, 105, 97>>,   \* "Vườn quốc gia"
    <<72, 117, 121, 7879, 110>>,   \* "Huyện"
    <<86, 105, 7879, 116, 32, 78, 97, 109>>,   \* "Việt Nam"
    <<45>>,   \* "-"
    <<116, 112, 32, 45>>,   \* "tp -"
    <<116, 104, 97, 110, 104, 32, 112, 104, 111, 32, 32, 99, 104, 97, 117, 32, 100, 111, 99>>,   \* "thanh pho  chau doc"
    <<72, 195, 160, 32, 78, 225, 187, 153, 105>>,   \* "HÃ\xa0 Ná»\x99i"
    <<196, 144, 225, 186, 175, 107, 32, 76, 225, 186, 175, 107>>,   \* "Ä\x90áº¯k Láº¯k"
    <<67, 104, 195, 162, 117, 32, 196, 144, 225, 187, 145, 99>>,   \* "ChÃ¢u Ä\x90á»\x91c"
    <<84, 104, 195, 160, 110, 104, 32, 112, 104, 225, 187, 145, 32, 72, 117, 225, 186, 191>>,   \* "ThÃ\xa0nh phá»\x91 Huáº¿"
    <<84, 80, 46, 32, 72, 225, 187, 147, 32, 67, 104, 195, 173, 32, 77, 105, 110, 104>>,   \* "TP. Há»\x93 ChÃ\xad Minh"
    <<76, 195, 162, 109, 32, 196, 144, 225, 187, 147, 110, 103>>,   \* "LÃ¢m Ä\x90á»\x93ng"
    <<81, 117, 225, 186, 163, 110, 103, 32, 78, 103, 195, 163, 105>>,   \* "Quáº£ng NgÃ£i"
    <<80, 97, 114, 105, 115, 32, 195, 169>>,   \* "Paris Ã©"
    <<72, 117, 121, 225, 187, 135, 110, 32, 84, 104, 195, 161, 112, 32, 77, 198, 176, 225, 187, 157, 105>>,   \* "Huyá»\x87n ThÃ¡p MÆ°á»\x9di"
    <<72, 195, 160, 32, 78, 225, 187, 153>>,   \* "HÃ\xa0 Ná»\x99"
    <<195>>,   \* "Ã"
    <<196, 144, 225, 186>>,   \* "Ä\x90áº"
    <<78, 225, 187, 105>>,   \* "Ná»i"
    <<225, 186>>,   \* "áº"
    <<97, 98, 99, 255>>,   \* "abcÿ"
    <<195, 40>>,   \* "Ã("
    <<67, 224, 32, 77, 97, 117, 160>>,   \* "Cà Mau\xa0"
    <<84, 80, 46, 32, 72, 163, 105, 32, 80, 7717, 110, 103, 32>>,   \* "TP. H£i Pḥng "
    <<66, 175, 99, 32, 32, 78, 105, 110, 104>> >>   \* "B¯c  Ninh"

\* standardize_provinces.py: the names its standardization_rules rewrite to
\* (the values of the dict).
standardization_targets == {
    <<84, 80, 46, 32, 72, 7891, 32, 67, 104, 237, 32, 77, 105, 110, 104>>,   \* "TP. Hồ Chí Minh"
    <<67, 7847, 110, 32, 84, 104, 417>>,   \* "Cần Thơ"
    <<72, 7843, 105, 32, 80, 104, 242, 110, 103>>,   \* "Hải Phòng"
    <<272, 224, 32, 78, 7861, 110, 103>>,   \* "Đà Nẵng"
    <<72, 224, 32, 78, 7897, 105>>,   \* "Hà Nội"
    <<84, 104, 7915, 97, 32, 84, 104, 105, 234, 110, 32, 72, 117, 7871>>,   \* "Thừa Thiên Huế"
    <<72, 242, 97, 32, 66, 236, 110, 104>>,   \* "Hòa Bình"
    <<84, 104, 97, 110, 104, 32, 72, 243, 97>> }   \* "Thanh Hóa"

\* clean_provinces.py: city_mappings, as (key, value) pairs.
city_mappings == <<
    <<<<84, 104, 224, 110, 104, 32, 112, 104, 7889, 32, 72, 224, 32, 78, 7897, 105>>, <<84, 80, 46, 32, 72, 224, 32, 78, 7897, 105>>>>,   \* "Thành phố Hà Nội": "TP. Hà Nội"
    <<<<84, 104, 224, 110, 104, 32, 112, 104, 7889, 32, 72, 7891, 32, 67, 104, 237, 32, 77, 105, 110, 104>>, <<84, 80, 46, 32, 72, 7891, 32, 67, 104, 237, 32, 77, 105, 110, 104>>>>,   \* "Thành phố Hồ Chí Minh": "TP. Hồ Chí Minh"
    <<<<84, 104, 224, 110, 104, 32, 112, 104, 7889, 32, 72, 7843, 105, 32, 80, 104, 242, 110, 103>>, <<84, 80, 46, 32, 72, 7843, 105, 32, 80, 104, 242, 110, 103>>>>,   \* "Thành phố Hải Phòng": "TP. Hải Phòng"
    <<<<84, 104, 224, 110, 104, 32, 112, 104, 7889, 32, 272, 224, 32, 78, 7861, 110, 103>>, <<84, 80, 46, 32, 272, 224, 32, 78, 7861, 110, 103>>>>,   \* "Thành phố Đà Nẵng": "TP. Đà Nẵng"
    <<<<84, 104, 224, 110, 104, 32, 112, 104, 7889, 32, 67, 7847, 110, 32, 84, 104, 417>>, <<84, 80, 46, 32, 67, 7847, 110, 32, 84, 104, 417>>>>,   \* "Thành phố Cần Thơ": "TP. Cần Thơ"
    <<<<84, 104, 224, 110, 104, 32, 112, 104, 7889, 32, 72, 117, 7871>>, <<84, 80, 46, 32, 72, 117, 7871>>>> >>   \* "Thành phố Huế": "TP. Huế"

\* The keys of alias_map and the keys of DISTRICT_MAP.
alias_keys ==
    ({normalize(c) : c \in canonical_34}
        \cup {normalize(mapping_34[i][1]) : i \in DOMAIN mapping_34}
        \cup {alias_overrides[i][1] : i \in DOMAIN alias_overrides}) \ {<<>>}
district_keys == {DISTRICT_MAP[i][1] : i \in DOMAIN DISTRICT_MAP}

\* A name with a prefix before it: p + " " + a.
prefixed(p, a) == p \o <<32>> \o a

\* Every key of the two tables behind every prefix of PREFIXES.
prefixed_names ==
    {prefixed(PREFIXES[k], a) : k \in DOMAIN PREFIXES, a \in alias_keys \cup district_keys}

\* process_file: df[col].apply(normalize_province) on one value.
apply_normalize_province ==
    /\ norm_pc = "read"
    /\ result' = normalize_province(raw_name)
    /\ norm_pc' = "done"
    /\ UNCHANGED raw_name

NormInit ==
    /\ raw_name \in {NaN} \cup {<<raw_names[i]>> : i \in DOMAIN raw_names}
                      \cup {<<t>> : t \in standardization_targets}
                      \cup {<<city_mappings[i][2]>> : i \in DOMAIN city_mappings}
                      \cup {<<n>> : n \in prefixed_names}
    /\ result = <<>>
    /\ norm_pc = "read"

NormIdle ==
    /\ raw_name = NaN
    /\ result = <<>>
    /\ norm_pc = "idle"

----------------------------------------------------------------------------
C15_TargetsAreFixedPoints ==
    /\ norm_pc = "done"
    /\ raw_name # NaN
    /\ \/ raw_name[1] \in standardization_targets
       \/ \E i \in DOMAIN city_mappings : raw_name[1] = city_mappings[i][2]
    => result = raw_name[1]

\* C21 (as stated): for every prefix p of PREFIXES and every key a of
\* alias_map or DISTRICT_MAP, the keys with a hyphen included,
\* normalize_province(p + " " + a) returns the province that
\* normalize_province(a) returns.
\* (Violated: behind a prefix the hyphen of "ba ria - vung tau" is replaced
\* by a space, which leaves three spaces between "ria" and "vung", a string
\* that is a key of neither table.)
C21_PrefixedKeyResolvesAsKey ==
    /\ norm_pc = "done"
    /\ raw_name # NaN
    => \A k \in DOMAIN PREFIXES : \A a \in alias_keys \cup district_keys :
          raw_name[1] = prefixed(PREFIXES[k], a)
             => result = normalize_province(<<a>>)

MaxDest == 4         \* largest number of destinations loaded
MaxGroupArg == 3     \* largest --start-group / --end-group value tried

\* fetch_group: max_retries = 3
trends_max_retries == 3

\* The anchor keyword; the destinations are 1, 2, ...
anchor_keyword == 0

\* os.makedirs / dest_group_<idx>.csv: what a file of RAW_DIR can be before
\* a run, and the file df.to_csv writes.
FileStates == {"missing", "unreadable", "empty_table", "old_data"}
ReadableFiles == {"empty_table", "old_data"}

\* One attempt (build_payload + interest_over_time): a frame with data, an
\* empty frame, an exception whose text has "429", another exception.
TrendsOutcomes == {"data", "empty", "429", "error"}

Min(a, b) == IF a <= b THEN a ELSE b

\* _group_list(items, n): [items[i:i+n] for i in range(0, len(items), n)]
GroupList(items, n) ==
    [g \in 1..((Len(items) + n - 1) \div n) |->
        SubSeq(items, (g - 1) * n + 1, Min(g * n, Len(items)))]

\* Python slice seq[start:end] for start >= 0 and end None or >= 0.
Slice(seq, start, end) ==
    LET last == IF end = <<>> THEN Len(seq) ELSE Min(end[1], Len(seq))
    IN IF start + 1 > last THEN <<>> ELSE SubSeq(seq, start + 1, last)

\* main: start_idx = (args.start_group - 1) if args.start_group else 0
start_idx == IF Truthy(trends_args.start_group) THEN trends_args.start_group[1] - 1 ELSE 0
\* main: end_idx = args.end_group if args.end_group else None
end_idx == IF Truthy(trends_args.end_group) THEN trends_args.end_group ELSE <<>>

\* fetch_all: batch_size = min(batch_size, 4) with an anchor.
batch_size == IF trends_args.use_anchor THEN Min(trends_args.batch_size, 4)
              ELSE trends_args.batch_size
all_groups == GroupList(destinations, batch_size)
\* fetch_all: groups = all_groups[start_group:end_group]
groups == Slice(all_groups, start_idx, end_idx)

\* fetch_all: actual_group_num = group_offset + i
actual_group_num_Local(group_offset, i) == i
actual_group_num(group_offset, i) == group_offset + i

\* fetch_group: the anchor is put in front of the group.
Payload(group) ==
    IF trends_args.use_anchor /\ \A k \in 1..Len(group) : group[k] # anchor_keyword
    THEN <<anchor_keyword>> \o group ELSE group

\* fetch_group: "if resume and os.path.exists(path)" and read_csv succeeds.
CanResume_IgnoresFlag(resume, file) == file \in ReadableFiles
CanResume(resume, file) == resume /\ file \in ReadableFiles

\* fetch_group: after attempt number att the while loop goes round again.
TryAgain_Unbounded(outcome, att) == outcome \in {"empty", "429"}
TryAgain(outcome, att) == outcome \in {"empty", "429"} /\ att < trends_max_retries

\* fetch_all, the rest of the loop body once fetch_group has returned.
Returned(idx, group, requests, last, ret) ==
    /\ calls' = Append(calls, [idx |-> idx, keywords |-> Payload(group),
                               requests |-> requests, last |-> last, result |-> ret,
                               resume |-> trends_args.resume,
                               file_before |-> raw_dir[idx]])
    /\ IF ret \notin {"None", "empty_table"}
       THEN /\ success_count' = success_count + 1
            /\ failed_groups' = failed_groups
       ELSE /\ success_count' = success_count
            /\ failed_groups' = Append(failed_groups,
                                       [group_num |-> idx, keywords |-> group])
    /\ group_i' = group_i + 1
    /\ trend_attempt' = 0
    /\ trends_pc' = "group"

\* fetch_group returns the saved file without a request.
TrendsResume ==
    /\ trends_pc = "group"
    /\ group_i <= Len(groups)
    /\ LET idx == actual_group_num(start_idx, group_i) IN
       /\ CanResume(trends_args.resume, raw_dir[idx])
       /\ Returned(idx, groups[group_i], 0, "none", raw_dir[idx])
    /\ UNCHANGED <<destinations, trends_args, raw_dir, failed_file>>

\* One attempt of fetch_group (with the rest of fetch_group and of the loop
\* body of fetch_all when it is the last one).
TrendsAttempt ==
    /\ trends_pc \in {"group", "retry"}
    /\ group_i <= Len(groups)
    /\ LET idx == actual_group_num(start_idx, group_i)
           att == trend_attempt + 1
       IN /\ trends_pc = "group" => ~CanResume(trends_args.resume, raw_dir[idx])
          /\ \E outcome \in TrendsOutcomes :
               IF outcome = "data"
               THEN /\ raw_dir' = [raw_dir EXCEPT ![idx] = "new_data"]
                    /\ Returned(idx, groups[group_i], att, outcome, "new_data")
               ELSE IF TryAgain(outcome, att)
               THEN /\ trend_attempt' = att
                    /\ trends_pc' = "retry"
                    /\ UNCHANGED <<raw_dir, calls, success_count, failed_groups, group_i>>
               ELSE /\ raw_dir' = raw_dir
                    /\ Returned(idx, groups[group_i], att, outcome, "None")
    /\ UNCHANGED <<destinations, trends_args, failed_file>>

\* fetch_all after the loop: the summary and failed_groups.txt.
TrendsFinish ==
    /\ trends_pc = "group"
    /\ group_i > Len(groups)
    /\ failed_file' = IF failed_groups # <<>> THEN <<failed_groups>> ELSE failed_file
    /\ trends_pc' = "done"
    /\ UNCHANGED <<destinations, trends_args, raw_dir, group_i, trend_attempt, calls,
                   success_count, failed_groups>>

OptArgs == {<<>>} \cup {<<k>> : k \in 0..MaxGroupArg}

TrendsInit ==
    /\ destinations \in {[k \in 1..d |-> k] : d \in 0..MaxDest}
    /\ trends_args \in [resume : BOOLEAN, use_anchor : BOOLEAN, batch_size : {2, 5},
                        start_group : OptArgs, end_group : OptArgs]
    /\ raw_dir \in [1..MaxDest -> FileStates]
    /\ \A k \in 1..MaxDest : k > Len(all_groups) => raw_dir[k] = "missing"
    /\ failed_file = <<>>
    /\ group_i = 1
    /\ trend_attempt = 0
    /\ calls = <<>>
    /\ success_count = 0
    /\ failed_groups = <<>>
    /\ trends_pc = "group"

TrendsIdle ==
    /\ destinations = <<>>
    /\ trends_args = [resume |-> TRUE, use_anchor |-> TRUE, batch_size |-> 5,
                      start_group |-> <<>>, end_group |-> <<>>]
    /\ raw_dir = [k \in 1..MaxDest |-> "missing"]
    /\ failed_file = <<>>
    /\ group_i = 1
    /\ trend_attempt = 0
    /\ calls = <<>>
    /\ success_count = 0
    /\ failed_groups = <<>>
    /\ trends_pc = "idle"

----------------------------------------------------------------------------
\* C12: fetch_group tries a group at most 3 times: whatever the attempts
\* bring (data, an empty frame, a 429 error, another error) at most 3
\* requests are sent, and when no attempt has brought non-empty data it
\* returns None and leaves the dest_group file as it was.
C12_AtMostThreeAttempts ==
    /\ trend_attempt \in 0..2
    /\ \A n \in 1..Len(calls) :
          /\ calls[n].requests <= 3
          /\ calls[n].requests > 0 =>
                /\ calls[n].last = "data" <=> calls[n].result = "new_data"
                /\ calls[n].last # "data" =>
                      /\ calls[n].result = "None"
                      /\ raw_dir[calls[n].idx] = calls[n].file_before

\* A group given up after three attempts that ended with a 429 error: None
\* was returned and no file exists.
C12_Witness ==
    \E n \in 1..Len(calls) :
        /\ calls[n].requests = 3
        /\ calls[n].last = "429"
        /\ calls[n].result = "None"
        /\ calls[n].file_before = "missing"
        /\ raw_dir[calls[n].idx] = "missing"

\* C13: with resume enabled and a dest_group_<idx>.csv that exists and can
\* be read, fetch_group returns the file's content, sends no request and
\* leaves the file unchanged; a group is fetched (at least one request)
\* exactly when resume is off or the file is missing or unreadable.
C13_ResumeSkipsSavedGroups ==
    \A n \in 1..Len(calls) :
        LET c == calls[n] IN
        /\ c.resume /\ c.file_before \in {"empty_table", "old_data"} =>
              /\ c.requests = 0
              /\ c.result = c.file_before
              /\ raw_dir[c.idx] = c.file_before
        /\ c.requests > 0 <=>
              ~c.resume \/ c.file_before \in {"missing", "unreadable"}

\* One run resumed group 1 from its file and fetched group 2, whose file
\* was missing.
C13_Witness ==
    /\ trends_args.resume
    /\ Len(calls) = 2
    /\ calls[1].file_before = "old_data"
    /\ calls[1].requests = 0
    /\ calls[1].result = "old_data"
    /\ raw_dir[calls[1].idx] = "old_data"
    /\ calls[2].file_before = "missing"
    /\ calls[2].requests > 0
    /\ calls[2].result = "new_data"

\* The group at 1-based position k of a full run, as sent to the API.
FullRunGroup(k) ==
    LET b == IF trends_args.use_anchor /\ trends_args.batch_size > 4 THEN 4
             ELSE trends_args.batch_size
        members == [j \in 1..Min(b, Len(destinations) - (k - 1) * b) |->
                        destinations[(k - 1) * b + j]]
    IN IF trends_args.use_anchor THEN <<anchor_keyword>> \o members ELSE members

NumGroups ==
    LET b == IF trends_args.use_anchor /\ trends_args.batch_size > 4 THEN 4
             ELSE trends_args.batch_size
    IN (Len(destinations) + b - 1) \div b

\* C14: --start-group S and --end-group E are 1-based and inclusive:
\* fetch_all processes exactly the groups at positions S..E (from the first
\* group without S, to the last without E or with E past the end), in
\* order, and group k is always read from and written to dest_group_k.
C14_StartEndGroupInclusive ==
    LET S == IF trends_args.start_group \in {<<>>, <<0>>} THEN 1
             ELSE trends_args.start_group[1]
        E == IF trends_args.end_group \in {<<>>, <<0>>} THEN NumGroups
             ELSE Min(trends_args.end_group[1], NumGroups)
    IN /\ \A n \in 1..Len(calls) :
             /\ calls[n].idx = S + n - 1
             /\ calls[n].idx <= E
             /\ calls[n].keywords = FullRunGroup(calls[n].idx)
             /\ calls[n].result = "new_data" => raw_dir[calls[n].idx] = "new_data"
       /\ \A k \in DOMAIN raw_dir :
             raw_dir[k] = "new_data" => \E n \in 1..Len(calls) : calls[n].idx = k
       /\ trends_pc = "done" => Len(calls) = (IF E >= S THEN E - S + 1 ELSE 0)

\* --start-group 2 --end-group 2 with two groups: only group 2 was fetched,
\* with the keywords of the second group of a full run, into dest_group_2.
C14_Witness ==
    /\ trends_pc = "done"
    /\ trends_args.start_group = <<2>>
    /\ trends_args.end_group = <<2>>
    /\ NumGroups = 2
    /\ Len(calls) = 1
    /\ calls[1].idx = 2
    /\ calls[1].keywords = FullRunGroup(2)
    /\ calls[1].result = "new_data"
    /\ raw_dir[2] = "new_data"
    /\ raw_dir[1] # "new_data"

(***************************************************************************)
(*                            SPECIFICATIONS                               *)
(***************************************************************************)

InitScrape == ScrapeInit /\ WeatherIdle /\ SplitIdle /\ MergeIdle /\ FilesIdle /\ NormIdle /\ TrendsIdle /\ FeatIdle
ScrapeFrame == UNCHANGED <<WeatherVars, SplitVars, MergeVars, FilesVars, NormVars, TrendsVars, FeatVars>>
NextScrape == \/ AccLimit /\ ScrapeFrame
              \/ AccFetch /\ ScrapeFrame
              \/ TourismStep /\ ScrapeFrame
              \/ CatalogStep /\ ScrapeFrame
              \/ CatalogEnd /\ ScrapeFrame
SpecScrape == InitScrape /\ [][NextScrape]_vars

\* A running script takes its next step: an HTTP request is answered or
\* times out (timeout=30, 25 in scraper_tourism), a sleep ends.
SpecScrapeFair == InitScrape /\ [][NextScrape]_vars /\ WF_vars(NextScrape)

InitWeather == WeatherInit /\ ScrapeIdle /\ SplitIdle /\ MergeIdle /\ FilesIdle /\ NormIdle /\ TrendsIdle /\ FeatIdle
NextWeather == create_weather_extended_features /\ UNCHANGED <<ScrapeVars, SplitVars, MergeVars, FilesVars, NormVars, TrendsVars, FeatVars>>
SpecWeather == InitWeather /\ [][NextWeather]_vars

InitSplit == SplitInit /\ ScrapeIdle /\ WeatherIdle /\ MergeIdle /\ FilesIdle /\ NormIdle /\ TrendsIdle /\ FeatIdle
NextSplit == time_based_split /\ UNCHANGED <<ScrapeVars, WeatherVars, MergeVars, FilesVars, NormVars, TrendsVars, FeatVars>>
SpecSplit == InitSplit /\ [][NextSplit]_vars

InitMerge == MergeInit /\ ScrapeIdle /\ WeatherIdle /\ SplitIdle /\ FilesIdle /\ NormIdle /\ TrendsIdle /\ FeatIdle
NextMerge == merge_tourism_data /\ UNCHANGED <<ScrapeVars, WeatherVars, SplitVars, FilesVars, NormVars, TrendsVars, FeatVars>>
SpecMerge == InitMerge /\ [][NextMerge]_vars

InitFiles == FilesInit /\ ScrapeIdle /\ WeatherIdle /\ SplitIdle /\ MergeIdle /\ NormIdle /\ TrendsIdle /\ FeatIdle
FilesFrame == UNCHANGED <<ScrapeVars, WeatherVars, SplitVars, MergeVars, NormVars, TrendsVars, FeatVars>>
NextFiles == \/ apply_mapping /\ FilesFrame
             \/ standardize_provinces /\ FilesFrame
             \/ get_weather_by_province_2011_2025 /\ FilesFrame
             \/ get_weather_2025_only /\ FilesFrame
             \/ run_create_weather_extended_features /\ FilesFrame
SpecFiles == InitFiles /\ [][NextFiles]_vars

InitNorm == NormInit /\ ScrapeIdle /\ WeatherIdle /\ SplitIdle /\ MergeIdle /\ FilesIdle /\ TrendsIdle /\ FeatIdle
NextNorm == apply_normalize_province /\ UNCHANGED <<ScrapeVars, WeatherVars, SplitVars, MergeVars, FilesVars, TrendsVars, FeatVars>>
SpecNorm == InitNorm /\ [][NextNorm]_vars

InitTrends == TrendsInit /\ ScrapeIdle /\ WeatherIdle /\ SplitIdle /\ MergeIdle /\ FilesIdle /\ NormIdle /\ FeatIdle
TrendsFrame == UNCHANGED <<ScrapeVars, WeatherVars, SplitVars, MergeVars, FilesVars, NormVars, FeatVars>>
NextTrends == \/ TrendsResume /\ TrendsFrame
              \/ TrendsAttempt /\ TrendsFrame
              \/ TrendsFinish /\ TrendsFrame
SpecTrends == InitTrends /\ [][NextTrends]_vars

InitFeatures == FeatInit /\ ScrapeIdle /\ WeatherIdle /\ SplitIdle /\ MergeIdle /\ FilesIdle /\ NormIdle /\ TrendsIdle
NextFeatures == feature_engineering /\ UNCHANGED <<ScrapeVars, WeatherVars, SplitVars, MergeVars, FilesVars, NormVars, TrendsVars>>
SpecFeatures == InitFeatures /\ [][NextFeatures]_vars

=============================================================================
